---- MODULE Spec2Model ----
(***************************************************************************)
(* A model of the UniFi adapter of external-dns-unifi-webhook:             *)
(*   - the HTTP transport (login, CSRF token, 401 re-login and replay),    *)
(*   - the API client (CreateEndpoint, DeleteEndpoint, GetEndpoints),      *)
(*   - the provider (Records, ApplyChanges).                               *)
(* The vendor controller is a black box: every HTTP exchange is answered   *)
(* by a nondeterministic choice among the responses it can give.           *)
(***************************************************************************)
EXTENDS Integers, Sequences, FiniteSets, TLC

VARIABLES
    \* ---- transport (httpTransport) ----
    mode,       \* "session" (config.APIKey == "") or "apikey"
    built,      \* "no" | "yes" | "failed": outcome of NewHTTPTransport
    csrf,       \* httpTransport.csrf
    stack,      \* the DoRequest activations in progress, innermost last
    top,        \* the operation the caller started: "none" | "ctor" | "DoRequest"
    calls,      \* the HTTP exchanges of the operation in progress, in order
    relogins,   \* UniFiReloginTotal increments of the operation in progress
    ctorCalls,  \* number of HTTP exchanges NewHTTPTransport made
    ret,        \* what the operation returned to its caller
    reloginFailed  \* an earlier DoRequest ended because its re-login failed

tvars == <<mode, built, csrf, stack, top, calls, relogins, ctorCalls, ret,
           reloginFailed>>

VARIABLES
    \* ---- vendor controller, API client and provider ----
    vendor,          \* the vendor's static-dns records, in listing order
    nextId,          \* the id the vendor gives to the next record it creates
    log,             \* the HTTP calls the client made, in order
    ignoredTargets,  \* IgnoredCNAMETargetsTotal
    srvParseErrors,  \* SRVParsingErrorsTotal
    cnameConflicts,  \* CNAMEConflictsTotal
    cl,              \* the client operation called directly, and its result
    ap               \* the ApplyChanges call of each webhook request

cvars == <<vendor, nextId, log, ignoredTargets, srvParseErrors, cnameConflicts,
           cl, ap>>

VARIABLES
    \* ---- DoRequest calls running concurrently on one transport ----
    req,        \* the DoRequest of each goroutine
    issued,     \* the number of the token the controller issued last
    \* ---- the webhook's HTTP handlers ----
    web         \* the request last handled, its answer and the provider calls made

gvars == <<req, issued, web>>

vars == <<tvars, cvars, gvars>>

(***************************************************************************)
(* Bounds                                                                  *)
(***************************************************************************)
\* Deepest nesting of DoRequest activations the model follows.
MaxDepth == 3
\* Most endpoints in the four lists of one plan.Changes together.
MaxBatch == 3
\* Most targets of one Endpoint handed to the client.
MaxTargets == 3

(***************************************************************************)
(* Transport                                                               *)
(***************************************************************************)
StatusOK == 200
StatusUnauthorized == 401
StatusServerError == 500

Tokens == {"", "t1", "t2"}

\* The X-Csrf-Token values of the responses that are not 200.
ErrorTokens == {"", "t2"}

\* A transport-level failure of httpClient.Do (no response at all).
NetErr == [kind |-> "net", status |-> 0, token |-> "", envelope |-> FALSE,
           msg |-> ""]

\* The messages of the vendor's JSON error envelope.
Messages == {"m1"}

\* What the controller can answer to one HTTP request: a status, an
\* X-Csrf-Token header (possibly empty) and a body that is a decodable JSON
\* error envelope with a message, or is not.
Responses ==
    {NetErr} \cup
    {[kind |-> "http", status |-> StatusOK, token |-> t, envelope |-> FALSE,
      msg |-> ""] : t \in Tokens} \cup
    {[kind |-> "http", status |-> s, token |-> t, envelope |-> FALSE,
      msg |-> ""] : s \in {StatusUnauthorized, StatusServerError},
                    t \in ErrorTokens} \cup
    {[kind |-> "http", status |-> s, token |-> t, envelope |-> TRUE,
      msg |-> m] : s \in {StatusUnauthorized, StatusServerError},
                   t \in ErrorTokens, m \in Messages}

NoRet == [kind |-> "none", status |-> 0, token |-> "", msg |-> ""]
Ok(r) == [kind |-> "ok", status |-> r.status, token |-> r.token, msg |-> ""]
Err(k, s) == [kind |-> k, status |-> s, token |-> "", msg |-> ""]
\* NewAPIError(method, path, status, message)
APIError(s, m) == [kind |-> "api", status |-> s, token |-> "", msg |-> m]

\* handleErrorResponse, losing the vendor's message.
handleErrorResponseNoMessage(r) ==
    IF r.envelope THEN APIError(r.status, "") ELSE Err("data", 0)

\* handleErrorResponse: an API error with the status and the envelope's
\* message, or a data error when the envelope does not decode.
handleErrorResponse(r) ==
    IF r.envelope THEN APIError(r.status, r.msg) ELSE Err("data", 0)

\* DoRequest, after the 401 handling: non-200 is an error, 200 the response.
DoRequestTail(r) ==
    IF r.status # StatusOK THEN handleErrorResponse(r) ELSE Ok(r)

\* Translate, with a failed exchange reported as an API error.
TranslateNetworkAsAPI(r) ==
    IF r.kind = "net" THEN APIError(0, "") ELSE DoRequestTail(r)

\* What a DoRequest activation returns for the response of its last exchange.
Translate(r) ==
    IF r.kind = "net" THEN Err("network", 0) ELSE DoRequestTail(r)

\* handleCSRFToken: adopt a non-empty X-Csrf-Token header.
handleCSRFToken(c, r) == IF r.token = "" THEN c ELSE r.token

\* Login, after its DoRequest returned res: [ret, csrf].
LoginTail(res, c) ==
    IF res.kind # "ok" THEN [ret |-> res, csrf |-> c]
    ELSE IF res.status # StatusOK
         THEN [ret |-> Err("auth", res.status), csrf |-> c]
         ELSE [ret |-> res, csrf |-> IF res.token # "" THEN res.token ELSE c]

\* handleUnauthorized, after a successful Login: where the activation that
\* received the 401 continues.
PcAfterLoginLoop == "send"
PcAfterLogin == "replay"

\* The innermost activation returned res to the Login that called it from
\* handleUnauthorized of the activation below it (the last of stk): a failed
\* login ends that activation too, a successful one lets it replay.
RECURSIVE Unwind(_, _, _)
Unwind(stk, res, c) ==
    IF stk = <<>> THEN [stack |-> <<>>, res |-> res, csrf |-> c]
    ELSE LET l == LoginTail(res, c)
             n == Len(stk)
         IN  IF l.ret.kind # "ok"
             THEN Unwind(SubSeq(stk, 1, n - 1), l.ret, l.csrf)
             ELSE [stack |-> [stk EXCEPT ![n].pc = PcAfterLogin],
                   res |-> NoRet, csrf |-> l.csrf]

\* A DoRequest activation: the request it sends, with or without a body
\* ("json": a reader over the marshalled JSON), and where it stands.
Frame(target, body) == [target |-> target, pc |-> "send", body |-> body]

\* SetHeaders, sending the stored token in API-key mode as well.
SetHeadersBoth(m, c) == [apikey |-> m = "apikey", csrf |-> <<c>>]

\* SetHeaders: the authentication headers of a request: X-Api-Key when a
\* key is configured, else X-Csrf-Token with the stored token (<<>>: the
\* header is not set).
SetHeaders(m, c) ==
    IF m = "apikey" THEN [apikey |-> TRUE, csrf |-> <<>>]
    ELSE [apikey |-> FALSE, csrf |-> <<c>>]

\* The body an exchange can put on the wire.  The replay hands the request
\* of the first attempt to httpClient.Do again, and its reader has been
\* read to the end: net/http finds the body shorter than the content
\* length and fails the exchange ("drained"), unless it got a connection it
\* had used before, in which case it rewinds the body and sends it whole.
SentBodies(f) ==
    IF f.pc = "replay" /\ f.body # "none" THEN {"drained", f.body} ELSE {f.body}

\* handleUnauthorized after a failed Login, were the transport given up.
BuiltAfterReloginGivenUp(b, failed) == IF failed THEN "failed" ELSE b

\* handleUnauthorized after Login returned: the transport itself is left
\* as it is whether the login failed or not.
BuiltAfterRelogin(b, failed) == b

\* NewHTTPTransport handing out a transport whatever Login returned.
ConstructedDegraded(l) == "yes"

\* NewHTTPTransport after the initial Login returned l: the transport, or
\* an error and no transport.
Constructed(l) == IF l.kind = "ok" THEN "yes" ELSE "failed"

\* NewHTTPTransport: with an API key no HTTP call; otherwise the initial Login.
NewHTTPTransport ==
    /\ built = "no" /\ top = "none"
    /\ IF mode = "apikey"
       THEN /\ built' = "yes"
            /\ top' = "ctor"
            /\ UNCHANGED stack
       ELSE /\ top' = "ctor"
            /\ stack' = <<Frame("login", "json")>>
            /\ UNCHANGED built
    /\ UNCHANGED <<mode, csrf, calls, relogins, ctorCalls, ret, reloginFailed>>
    /\ UNCHANGED cvars
    /\ UNCHANGED gvars

\* A caller starts DoRequest on an idle, constructed transport, with or
\* without a body; a URL that http.NewRequestWithContext refuses ends the
\* call at once with a plain wrapped error.
DoRequest(body, wellFormed) ==
    /\ built = "yes" /\ stack = <<>>
    /\ top' = "DoRequest"
    /\ calls' = <<>>
    /\ relogins' = 0
    /\ IF wellFormed
       THEN stack' = <<Frame("api", body)>> /\ ret' = NoRet
       ELSE stack' = <<>> /\ ret' = Err("plain", 0)
    /\ UNCHANGED <<mode, built, csrf, ctorCalls, reloginFailed>>
    /\ UNCHANGED cvars
    /\ UNCHANGED gvars

\* The operation the caller started ends with res (the result of its
\* outermost DoRequest activation); failed: it ended on a login exchange.
Finish(res, c, cs, failed) ==
    /\ stack' = <<>>
    /\ IF top = "ctor"
       THEN LET l == LoginTail(res, c)
            IN  /\ ret' = l.ret
                /\ csrf' = l.csrf
                /\ built' = Constructed(l.ret)
                /\ ctorCalls' = Len(cs)
                /\ UNCHANGED reloginFailed
       ELSE /\ ret' = res
            /\ csrf' = c
            /\ built' = BuiltAfterRelogin(built, failed)
            /\ reloginFailed' = (reloginFailed \/ failed)
            /\ UNCHANGED ctorCalls

\* The session block of DoRequest, were every error status a reason to log in.
IsUnauthorizedAnyError(r) == r.status # StatusOK

\* The session block of DoRequest: only 401 enters handleUnauthorized.
IsUnauthorized(r) == r.status = StatusUnauthorized

\* One HTTP exchange of the innermost activation, and the code that follows
\* it up to the next exchange or the return to the caller.
HttpExchange(r) ==
    /\ stack # <<>>
    /\ LET n == Len(stack)
           f == stack[n]
           c1 == IF mode = "session" /\ f.pc = "send" /\ r.kind = "http"
                 THEN handleCSRFToken(csrf, r) ELSE csrf
       IN  \E sent \in SentBodies(f) :
           LET cs == Append(calls, [target |-> f.target, attempt |-> f.pc,
                                    hdr |-> SetHeaders(mode, csrf),
                                    body |-> sent, resp |-> r])
           IN
           /\ sent = "drained" => r = NetErr
           /\ calls' = cs
           /\ IF /\ mode = "session" /\ f.pc = "send" /\ r.kind = "http"
                 /\ IsUnauthorized(r)
              THEN \* handleUnauthorized: count, then Login -> DoRequest
                   /\ n < MaxDepth
                   /\ relogins' = relogins + 1
                   /\ stack' = Append(stack, Frame("login", "json"))
                   /\ csrf' = c1
                   /\ UNCHANGED <<built, ctorCalls, ret, reloginFailed>>
              ELSE LET u == Unwind(SubSeq(stack, 1, n - 1), Translate(r), c1)
                   IN  /\ UNCHANGED relogins
                       /\ IF u.stack = <<>>
                          THEN Finish(u.res, u.csrf, cs, f.target = "login")
                          ELSE /\ stack' = u.stack
                               /\ csrf' = u.csrf
                               /\ UNCHANGED <<built, ctorCalls, ret, reloginFailed>>
    /\ UNCHANGED <<mode, top>>
    /\ UNCHANGED cvars
    /\ UNCHANGED gvars

(***************************************************************************)
(* Records and endpoints                                                   *)
(*                                                                         *)
(* A string that the code splits at white space (a target, a value) is the *)
(* sequence of its fields: "10 20 8080 h1" is <<"10", "20", "8080", "h1">> *)
(* and "v1" is <<"v1">>.  An optional integer (a pointer) is <<>> for nil *)
(* and <<n>> for a pointer to n.                                           *)
(***************************************************************************)
recordTypeA == "A"
recordTypeAAAA == "AAAA"
recordTypeCNAME == "CNAME"
recordTypeMX == "MX"
recordTypeNS == "NS"
recordTypeSRV == "SRV"
recordTypeTXT == "TXT"

Nil == <<>>
Ptr(n) == <<n>>

\* The decimal fields the model uses, with the integers they denote.
IntOf == ("1" :> 1) @@ ("2" :> 2) @@ ("3" :> 3) @@
         ("10" :> 10) @@ ("20" :> 20) @@ ("8080" :> 8080)
IsInt(tok) == tok \in DOMAIN IntOf
DecimalDigit == <<"0", "1", "2", "3", "4", "5", "6", "7", "8", "9">>
\* fmt: %d of a natural number, as one field.
RECURSIVE StrOf(_)
StrOf(n) ==
    IF n < 10 THEN DecimalDigit[n + 1]
    ELSE StrOf(n \div 10) \o DecimalDigit[(n % 10) + 1]

Endpoint(name, type, ttl, targets) ==
    [name |-> name, type |-> type, ttl |-> ttl, targets |-> targets]

\* A DNSRecord (types.go): id 0 stands for the empty _id.
DNSRecord(id, key, type, ttl, value) ==
    [id |-> id, enabled |-> TRUE, key |-> key, port |-> Nil, priority |-> Nil,
     type |-> type, ttl |-> ttl, value |-> value, weight |-> Nil]

NoErr == [kind |-> "nil", n |-> 0]
Error(kind, n) == [kind |-> kind, n |-> n]

\* One HTTP call of the client as the log keeps it: method, the id in the
\* URL (0: the collection), the JSON body (<<>>: none), whether it
\* succeeded, the step of the caller that made it, and the request.
Call(m, id, body, ok, src, p) ==
    [m |-> m, id |-> id, body |-> body, ok |-> ok, src |-> src, p |-> p]

(***************************************************************************)
(* API client                                                              *)
(***************************************************************************)
\* prepareDNSRecord, with a wrong enabled flag.
prepareDNSRecordDisabled(endpoint, target) ==
    [DNSRecord(0, endpoint.name, endpoint.type, endpoint.ttl, target)
        EXCEPT !.enabled = FALSE]

\* prepareDNSRecord
prepareDNSRecord(endpoint, target) ==
    DNSRecord(0, endpoint.name, endpoint.type, endpoint.ttl, target)

\* parseSRVTarget: fmt.Sscanf(target, "%d %d %d %s", ...): three integers
\* and one more field; further fields are ignored.
parseSRVTarget(record, target) ==
    IF Len(target) >= 4 /\ IsInt(target[1]) /\ IsInt(target[2]) /\ IsInt(target[3])
    THEN [err |-> NoErr,
          record |-> [record EXCEPT !.priority = Ptr(IntOf[target[1]]),
                                    !.weight = Ptr(IntOf[target[2]]),
                                    !.port = Ptr(IntOf[target[3]]),
                                    !.value = <<target[4]>>]]
    ELSE [err |-> Error("data", 0), record |-> record]

\* The SRV loop of GetEndpoints, leaving the three fields in place.
FoldSRVKeepFields(r) ==
    IF r.type # recordTypeSRV THEN r
    ELSE [r EXCEPT !.value = <<StrOf(r.priority[1]), StrOf(r.weight[1]),
                               StrOf(r.port[1])>> \o r.value]

\* GetEndpoints, after a successful GET: SRV records get their value
\* formatted as "priority weight port value" and the three fields cleared.
FoldSRV(r) ==
    IF r.type # recordTypeSRV THEN r
    ELSE [r EXCEPT !.value = <<StrOf(r.priority[1]), StrOf(r.weight[1]),
                               StrOf(r.port[1])>> \o r.value,
                   !.priority = Nil, !.weight = Nil, !.port = Nil]

GetEndpoints(v) == [i \in 1..Len(v) |-> FoldSRV(v[i])]

\* The SRV loop of GetEndpoints dereferences record.Priority, record.Weight
\* and record.Port: a nil pointer panic when the decoded record lacks one.
NilDereference(v) ==
    \E i \in 1..Len(v) :
        /\ v[i].type = recordTypeSRV
        /\ (v[i].priority = Nil \/ v[i].weight = Nil \/ v[i].port = Nil)

\* The targets CreateEndpoint works on and the increment of the
\* ignored-targets counter: a CNAME keeps its first target only.
CreateTargets(endpoint) ==
    IF endpoint.type = recordTypeCNAME /\ Len(endpoint.targets) > 1
    THEN SubSeq(endpoint.targets, 1, 1) ELSE endpoint.targets

IgnoredIncrement(endpoint) ==
    IF endpoint.type = recordTypeCNAME /\ Len(endpoint.targets) > 1 THEN 1 ELSE 0

\* The target parseSRVTarget is given in the loop's i-th iteration.
SRVParseTarget(endpoint, i) == endpoint.targets[1]

\* A failed POST, were the records created before it taken back.
CreateFailureRollback(st, call) ==
    [st EXCEPT !.err = Error("request", 0), !.created = <<>>,
               !.calls = Append(st.calls, call),
               !.vendor = SubSeq(st.vendor, 1, Len(st.vendor) - Len(st.created))]

\* createSingleDNSRecord failed: CreateEndpoint returns nil and that error
\* at once; what the earlier iterations created is left on the vendor.
CreateFailure(st, call) ==
    [st EXCEPT !.err = Error("request", 0), !.created = <<>>,
               !.calls = Append(st.calls, call)]

\* The loop of CreateEndpoint from its i-th target on.  st carries the
\* vendor, the next id, the calls made and the records created so far;
\* failAt is the POST (counted from 1) that the vendor fails, 0 for none.
RECURSIVE CreateLoop(_, _, _, _, _, _)
CreateLoop(endpoint, targets, i, st, failAt, tag) ==
    IF i > Len(targets) THEN st
    ELSE LET rec0 == prepareDNSRecord(endpoint, targets[i])
             prs == IF endpoint.type = recordTypeSRV
                    THEN parseSRVTarget(rec0, SRVParseTarget(endpoint, i))
                    ELSE [err |-> NoErr, record |-> rec0]
             nposts == Cardinality({j \in 1..Len(st.calls) : st.calls[j].m = "POST"})
         IN  IF prs.err # NoErr
             THEN [st EXCEPT !.err = prs.err, !.created = <<>>,
                             !.srvErrors = st.srvErrors + 1]
             ELSE IF failAt = nposts + 1
             THEN CreateFailure(st, Call("POST", 0, <<prs.record>>, FALSE,
                                         tag[1], tag[2]))
             ELSE LET made == [prs.record EXCEPT !.id = st.nextId]
                  IN  CreateLoop(endpoint, targets, i + 1,
                          [st EXCEPT !.vendor = Append(st.vendor, made),
                                     !.nextId = st.nextId + 1,
                                     !.created = Append(st.created, made),
                                     !.calls = Append(st.calls,
                                         Call("POST", 0, <<prs.record>>, TRUE, tag[1], tag[2]))],
                          failAt, tag)

\* CreateEndpoint on vendor v: [vendor, nextId, calls, created, err,
\* ignored, srvErrors].
CreateEndpoint(v, nid, endpoint, failAt, tag) ==
    CreateLoop(endpoint, CreateTargets(endpoint), 1,
               [vendor |-> v, nextId |-> nid, calls |-> <<>>, created |-> <<>>,
                err |-> NoErr, ignored |-> IgnoredIncrement(endpoint),
                srvErrors |-> 0],
               failAt, tag)

\* The selection of DeleteEndpoint, narrowed to the endpoint's targets.
MatchingTargets(records, endpoint) ==
    {i \in 1..Len(records) :
        /\ records[i].key = endpoint.name /\ records[i].type = endpoint.type
        /\ \E j \in 1..Len(endpoint.targets) : endpoint.targets[j] = records[i].value}

\* The indices of the records DeleteEndpoint selects: same key and type.
Matching(records, endpoint) ==
    {i \in 1..Len(records) :
        records[i].key = endpoint.name /\ records[i].type = endpoint.type}

\* The result of DeleteEndpoint, were a missing record an error.
DeleteErrorNotFound(nFailed, nMatched) ==
    IF nFailed > 0 THEN Error("delete", nFailed)
    ELSE IF nMatched = 0 THEN Error("notfound", 0) ELSE NoErr

\* The result of DeleteEndpoint after its loop: the aggregate error of the
\* failed DELETEs, nil when there is none.
DeleteError(nFailed, nMatched) ==
    IF nFailed > 0 THEN Error("delete", nFailed) ELSE NoErr

RECURSIVE DeleteCalls(_, _, _, _, _)
DeleteCalls(records, idx, i, F, tag) ==
    IF i > Len(records) THEN <<>>
    ELSE (IF i \in idx
          THEN <<Call("DELETE", records[i].id, <<>>, records[i].id \notin F,
                      tag[1], tag[2])>>
          ELSE <<>>) \o DeleteCalls(records, idx, i + 1, F, tag)

\* DeleteEndpoint on vendor v: the GET fails (getFails), or every matching
\* record gets one DELETE, those of the ids in F failing: [vendor, calls, err].
DeleteEndpoint(v, endpoint, getFails, F, tag) ==
    IF getFails
    THEN [vendor |-> v, err |-> Error("request", 0),
          calls |-> <<Call("GET", 0, <<>>, FALSE, tag[1], tag[2])>>]
    ELSE LET records == GetEndpoints(v)
             idx == Matching(records, endpoint)
             gone == {records[i].id : i \in idx} \ F
             failed == {records[i].id : i \in idx} \cap F
             Stays(r) == r.id \notin gone
         IN  [vendor |-> SelectSeq(v, Stays),
              err |-> DeleteError(Cardinality(failed), Cardinality(idx)),
              calls |-> <<Call("GET", 0, <<>>, TRUE, tag[1], tag[2])>>
                        \o DeleteCalls(records, idx, 1, F, tag)]

\* The ids DeleteEndpoint would send a DELETE for.
MatchingIds(v, endpoint) ==
    LET records == GetEndpoints(v)
    IN  {records[i].id : i \in Matching(records, endpoint)}

(***************************************************************************)
(* Provider                                                                *)
(***************************************************************************)
\* provider.SupportedRecordType of external-dns.
SupportedRecordType(t) ==
    t \in {recordTypeA, recordTypeAAAA, recordTypeCNAME, recordTypeSRV,
           recordTypeTXT, recordTypeNS}

\* Records: the key of the group a record is filed under.
GroupKey(r) == r.key \o r.type

\* Records, after a successful GetEndpoints: one Endpoint per group, named
\* after the group's first record, its targets the values of the group's
\* records in listing order.  The map's iteration order is not defined: the
\* result is a set, and whoever walks it picks the order.
Records(records) ==
    LET Supported(r) == SupportedRecordType(r.type)
        sup == SelectSeq(records, Supported)
        keys == {GroupKey(sup[i]) : i \in 1..Len(sup)}
        Group(g) == LET In(r) == GroupKey(r) = g IN SelectSeq(sup, In)
    IN  {LET m == Group(g)
         IN  Endpoint(m[1].key, m[1].type, m[1].ttl,
                      [i \in 1..Len(m) |-> m[i].value]) : g \in keys}

\* ApplyChanges: the endpoints of the delete loop and of the create loop.
DeleteList(ch) == ch.UpdateOld \o ch.Delete
CreateList(ch) == ch.Create \o ch.UpdateNew

\* The conflict loop, were it to take every baseline endpoint at the name.
ConflictsAnyType(endpoint, existingRecords) ==
    IF endpoint.type # "CNAME" THEN {}
    ELSE {record \in existingRecords : record.name = endpoint.name}

\* The conflict loop's DeleteEndpoint, were it to work on the records as they
\* were when ApplyChanges was called.
ConflictRecordsBaseline(v, a) == a.before

\* The records the DeleteEndpoint of the conflict loop works on: it reads
\* the vendor anew, whatever the baseline held.
ConflictRecords(v, a) == v

\* ApplyChanges: the baseline endpoints the conflict loop deletes before it
\* creates endpoint.
NoConflicts(endpoint, existingRecords) == {}
Conflicts(endpoint, existingRecords) ==
    IF endpoint.type # "CNAME" THEN {}
    ELSE {record \in existingRecords :
            record.type = "CNAME" /\ record.name = endpoint.name}

\* The position of ApplyChanges after the step at (pc, i) succeeded, with
\* the two loops swapped.
NextPositionCreateFirst(ch, pc, i) ==
    IF pc = "baseline" /\ CreateList(ch) # <<>> THEN [pc |-> "create", i |-> 1]
    ELSE IF pc = "baseline" /\ DeleteList(ch) # <<>> THEN [pc |-> "delete", i |-> 1]
    ELSE IF pc = "create" /\ i < Len(CreateList(ch)) THEN [pc |-> "create", i |-> i + 1]
    ELSE IF pc = "create" /\ DeleteList(ch) # <<>> THEN [pc |-> "delete", i |-> 1]
    ELSE IF pc = "delete" /\ i < Len(DeleteList(ch)) THEN [pc |-> "delete", i |-> i + 1]
    ELSE [pc |-> "done", i |-> 0]

\* The position of ApplyChanges after the step at (pc, i) succeeded: the
\* delete loop over UpdateOld and Delete, then the create loop over Create
\* and UpdateNew, then the return of nil.
NextPosition(ch, pc, i) ==
    IF pc = "baseline" /\ DeleteList(ch) # <<>> THEN [pc |-> "delete", i |-> 1]
    ELSE IF pc = "delete" /\ i < Len(DeleteList(ch)) THEN [pc |-> "delete", i |-> i + 1]
    ELSE IF pc \in {"baseline", "delete"} /\ CreateList(ch) # <<>>
         THEN [pc |-> "create", i |-> 1]
    ELSE IF pc = "create" /\ i < Len(CreateList(ch)) THEN [pc |-> "create", i |-> i + 1]
    ELSE [pc |-> "done", i |-> 0]

\* ApplyChanges after a step ended with err, continuing whatever err is.
AfterStepBestEffort(a, err, n) ==
    LET pos == NextPosition(a.changes, a.pc, a.i)
        st == Append(a.steps, [kind |-> a.pc, i |-> a.i, err |-> err, logLen |-> n])
    IN  [a EXCEPT !.pc = pos.pc, !.i = pos.i, !.resolved = {}, !.steps = st,
                  !.ret = IF pos.pc = "done" THEN NoErr ELSE a.ret]

\* ApplyChanges after a delete, a baseline read or a create ended with err
\* (n: the calls made so far): an error is returned at once.
AfterStep(a, err, n) ==
    LET pos == NextPosition(a.changes, a.pc, a.i)
        st == Append(a.steps, [kind |-> a.pc, i |-> a.i, err |-> err, logLen |-> n])
    IN  IF err # NoErr
        THEN [a EXCEPT !.pc = "done", !.ret = err, !.steps = st]
        ELSE [a EXCEPT !.pc = pos.pc, !.i = pos.i, !.resolved = {}, !.steps = st,
                       !.ret = NoErr]

\* ApplyChanges after the deletion of one conflicting CNAME ended with err.
AfterConflict(a, record, err, n) ==
    LET st == Append(a.steps, [kind |-> "conflict", i |-> a.i, err |-> err,
                               logLen |-> n])
    IN  IF err # NoErr
        THEN [a EXCEPT !.pc = "done", !.ret = err, !.steps = st]
        ELSE [a EXCEPT !.resolved = a.resolved \cup {record}, !.steps = st]

\* ApplyChanges after p.Records(ctx) failed, going on without a baseline.
AfterBaselineErrorIgnored(a, n) == AfterStepBestEffort(a, Error("request", 0), n)

\* ApplyChanges after p.Records(ctx) failed.
AfterBaselineError(a, n) == AfterStep(a, Error("request", 0), n)

(***************************************************************************)
(* Record transformer (transformer.go)                                     *)
(*                                                                         *)
(* Here a string is the sequence of its characters, so that fmt.Sprintf    *)
(* and fmt.Sscanf are modelled by what they write and read.                *)
(***************************************************************************)
Digits == <<"0", "1", "2", "3", "4", "5", "6", "7", "8", "9">>
IsDigit(ch) == \E d \in 1..10 : Digits[d] = ch
DigitVal(ch) == (CHOOSE d \in 1..10 : Digits[d] = ch) - 1
IsSpace(ch) == ch = " "

\* fmt: %d of an integer.
RECURSIVE FormatInt(_)
FormatInt(n) ==
    IF n < 0 THEN <<"-">> \o FormatInt(0 - n)
    ELSE IF n < 10 THEN <<Digits[n + 1]>>
    ELSE FormatInt(n \div 10) \o <<Digits[(n % 10) + 1]>>

\* FormatSRVValue, with the port and the weight swapped.
FormatSRVValueSwapped(priority, weight, port, target) ==
    FormatInt(priority) \o <<" ">> \o FormatInt(port) \o <<" ">>
        \o FormatInt(weight) \o <<" ">> \o target

\* FormatSRVValue: fmt.Sprintf("%d %d %d %s", priority, weight, port, target)
FormatSRVValue(priority, weight, port, target) ==
    FormatInt(priority) \o <<" ">> \o FormatInt(weight) \o <<" ">>
        \o FormatInt(port) \o <<" ">> \o target

\* fmt scanning: the position after the spaces that start at pos.
RECURSIVE SkipSpace(_, _)
SkipSpace(str, pos) ==
    IF pos <= Len(str) /\ IsSpace(str[pos]) THEN SkipSpace(str, pos + 1) ELSE pos

\* The position after the digits (and underscores) that start at pos.
RECURSIVE ScanNumber(_, _)
ScanNumber(str, pos) ==
    IF pos <= Len(str) /\ (IsDigit(str[pos]) \/ str[pos] = "_")
    THEN ScanNumber(str, pos + 1) ELSE pos

\* strconv.ParseInt of a run of decimal digits.
RECURSIVE ParseDigits(_)
ParseDigits(tok) ==
    IF tok = <<>> THEN 0
    ELSE 10 * ParseDigits(SubSeq(tok, 1, Len(tok) - 1)) + DigitVal(tok[Len(tok)])

\* fmt scanning of %d at pos: [ok, val, pos].  Leading spaces are skipped,
\* a sign is accepted, at least one digit is needed, and an underscore among
\* the digits is read but refused by strconv.ParseInt.
ScanInt(str, pos) ==
    LET p0 == SkipSpace(str, pos)
        p1 == IF p0 <= Len(str) /\ str[p0] \in {"+", "-"} THEN p0 + 1 ELSE p0
        p2 == ScanNumber(str, p1)
        tok == SubSeq(str, p1, p2 - 1)
    IN  IF p0 > Len(str) \/ p2 = p1 \/ (\E i \in 1..Len(tok) : tok[i] = "_")
        THEN [ok |-> FALSE, val |-> 0, pos |-> p2]
        ELSE [ok |-> TRUE, pos |-> p2,
              val |-> IF str[p0] = "-" THEN 0 - ParseDigits(tok) ELSE ParseDigits(tok)]

\* fmt scanning of a space of the format at pos: [ok, pos].  The input must
\* be at its end or at a space; the spaces are consumed.
ScanFormatSpace(str, pos) ==
    IF pos <= Len(str) /\ ~IsSpace(str[pos]) THEN [ok |-> FALSE, pos |-> pos]
    ELSE [ok |-> TRUE, pos |-> SkipSpace(str, pos)]

\* The position after the characters other than spaces that start at pos.
RECURSIVE ScanToken(_, _)
ScanToken(str, pos) ==
    IF pos <= Len(str) /\ ~IsSpace(str[pos]) THEN ScanToken(str, pos + 1) ELSE pos

\* fmt scanning of %s at pos: [ok, val]: the next word; none is an error
\* (unexpected EOF).
ScanString(str, pos) ==
    LET p0 == SkipSpace(str, pos)
    IN  IF p0 > Len(str) THEN [ok |-> FALSE, val |-> <<>>]
        ELSE [ok |-> TRUE, val |-> SubSeq(str, p0, ScanToken(str, p0) - 1)]

\* ParseSRVTarget: the three fields are allocated (zero), then
\* fmt.Sscanf(target, "%d %d %d %s", ...) fills what it reads up to its
\* first failure: [err, record].
ParseSRVTarget(record, target) ==
    LET r0 == [record EXCEPT !.priority = Ptr(0), !.weight = Ptr(0), !.port = Ptr(0)]
        a == ScanInt(target, 1)
        s1 == ScanFormatSpace(target, a.pos)
        b == ScanInt(target, s1.pos)
        s2 == ScanFormatSpace(target, b.pos)
        c == ScanInt(target, s2.pos)
        s3 == ScanFormatSpace(target, c.pos)
        d == ScanString(target, s3.pos)
        r1 == [r0 EXCEPT !.priority = Ptr(a.val)]
        r2 == [r1 EXCEPT !.weight = Ptr(b.val)]
        r3 == [r2 EXCEPT !.port = Ptr(c.val)]
        r4 == [r3 EXCEPT !.value = d.val]
        bad == Error("data", 0)
    IN  IF ~a.ok THEN [err |-> bad, record |-> r0]
        ELSE IF ~s1.ok \/ ~b.ok THEN [err |-> bad, record |-> r1]
        ELSE IF ~s2.ok \/ ~c.ok THEN [err |-> bad, record |-> r2]
        ELSE IF ~s3.ok \/ ~d.ok THEN [err |-> bad, record |-> r3]
        ELSE [err |-> NoErr, record |-> r4]

(***************************************************************************)
(* Inputs                                                                  *)
(***************************************************************************)
Procs == {1, 2}

PlainTargets == {<<"v1">>, <<"v2">>, <<"v3">>}
SRVTargets == {<<"10", "20", "8080", "h1">>, <<"1", "2", "3", "h2">>,
               <<"10", "20", "h1">>, <<"x", "20", "8080", "h1">>}
PlainTypes == {recordTypeA, recordTypeAAAA, recordTypeCNAME, recordTypeMX,
               recordTypeNS, recordTypeTXT}

TargetLists(T) == UNION {[1..n -> T] : n \in 1..MaxTargets}

\* Priorities, weights and ports in [0, 65535], and hosts without white
\* space, the empty one among them.
MaxUint16 == 65535
SRVNumbers == {0, 7, 10, 255, 8080, MaxUint16}
SRVHosts == {<<>>, <<"h">>, <<"7">>, <<"h", ".", "c">>, <<"7", "h">>, <<"-", "1">>}

\* The endpoints handed to CreateEndpoint and DeleteEndpoint directly.
ClientEndpoints ==
    {Endpoint(name, t, ttl, ts) : name \in {"foo", "bar"}, t \in PlainTypes,
        ttl \in {0, 300}, ts \in TargetLists(PlainTargets)} \cup
    {Endpoint(name, recordTypeSRV, ttl, ts) : name \in {"foo", "bar"},
        ttl \in {0, 300}, ts \in TargetLists(SRVTargets)}

SRVRecord(id, key, ttl, p, w, port, host) ==
    [DNSRecord(id, key, recordTypeSRV, ttl, host)
        EXCEPT !.priority = Ptr(p), !.weight = Ptr(w), !.port = Ptr(port)]

\* The vendor's records when a client operation is called directly.
ClientVendors ==
    { <<>>,
      <<DNSRecord(1, "foo", recordTypeA, 300, <<"v1">>),
        DNSRecord(2, "bar", recordTypeA, 300, <<"v1">>),
        DNSRecord(3, "foo", recordTypeA, 300, <<"v2">>)>>,
      <<DNSRecord(1, "foo", recordTypeCNAME, 300, <<"v1">>),
        SRVRecord(2, "foo", 300, 10, 20, 8080, <<"h1">>),
        SRVRecord(3, "foo", 300, 1, 2, 3, <<"h2">>)>>,
      <<DNSRecord(1, "fooAAA", recordTypeA, 300, <<"v1">>),
        DNSRecord(2, "foo", recordTypeAAAA, 300, <<"v2">>),
        DNSRecord(3, "foo", recordTypeMX, 300, <<"v3">>),
        DNSRecord(4, "foo", recordTypeAAAA, 300, <<"v2">>)>> }

\* The endpoints of the batches handed to ApplyChanges.
ApplyEndpoints ==
    { Endpoint("bar", recordTypeA, 300, <<<<"v1">>>>),
      Endpoint("foo", recordTypeA, 300, <<<<"v1">>, <<"v2">>>>),
      Endpoint("foo", recordTypeCNAME, 300, <<<<"v1">>>>),
      Endpoint("foo", recordTypeCNAME, 300, <<<<"v2">>>>) }

\* The vendor's records when ApplyChanges is called: at most one CNAME
\* record per name.
ApplyVendors ==
    { <<>>,
      <<DNSRecord(1, "foo", recordTypeCNAME, 300, <<"v3">>)>>,
      <<DNSRecord(1, "bar", recordTypeA, 300, <<"v1">>),
        DNSRecord(2, "foo", recordTypeCNAME, 300, <<"v1">>)>>,
      <<DNSRecord(1, "foo", recordTypeA, 300, <<"v1">>),
        DNSRecord(2, "foo", recordTypeA, 300, <<"v2">>),
        DNSRecord(3, "bar", recordTypeA, 300, <<"v2">>)>> }

Changes(s, a, b, c) ==
    [Create |-> SubSeq(s, 1, a), UpdateOld |-> SubSeq(s, a + 1, b),
     UpdateNew |-> SubSeq(s, b + 1, c), Delete |-> SubSeq(s, c + 1, Len(s))]

\* Every plan.Changes over ApplyEndpoints with at most MaxBatch endpoints.
Batches ==
    {Changes(x[1], x[2], x[3], x[4]) :
        x \in {y \in (UNION {[1..n -> ApplyEndpoints] : n \in 0..MaxBatch})
                        \X (0..MaxBatch) \X (0..MaxBatch) \X (0..MaxBatch) :
                  y[2] <= y[3] /\ y[3] <= y[4] /\ y[4] <= Len(y[1])}}

NoChanges == Changes(<<>>, 0, 0, 0)

\* An ApplyChanges call: its position (pc, i), its arguments, the vendor's
\* records when it was called, existingRecords, the conflicting records
\* already deleted for the endpoint at i, the steps made and the result;
\* whether its context has been cancelled, and after how many HTTP calls.
ApIdle == [pc |-> "idle", changes |-> NoChanges, before |-> <<>>,
           baseline |-> {}, i |-> 0, resolved |-> {}, steps |-> <<>>,
           ret |-> NoErr, cancelled |-> FALSE, cancelAt |-> 0]

\* A goroutine that has not called DoRequest: where its DoRequest stands,
\* the X-Csrf-Token its request carries, the token of the login response it
\* holds, the status of its first response, its re-logins and replays, and
\* what it returned.
ReqIdle == [pc |-> "idle", hdr |-> "", tok |-> "", first |-> 0,
            relogins |-> 0, replays |-> 0, ret |-> NoRet]

(***************************************************************************)
(* The webhook's media types and header check                              *)
(***************************************************************************)
StatusNoContent == 204
StatusBadRequest == 400
StatusNotAcceptable == 406
StatusUnsupportedMediaType == 415

mediaTypeFormat == "application/external.dns.webhook+json;"

\* supportedMediaVersions, "1", split at its commas.
supportedMediaVersions == <<"1">>

mediaTypeVersion(v) == mediaTypeFormat \o "version=" \o v

\* mediaType.Is: the two strings are equal.
Is(m, headerValue) == m = headerValue

\* Any header value that is not empty passes.
checkAndGetMediaTypeHeaderValueAny(value) == value # ""

\* checkAndGetMediaTypeHeaderValue: TRUE when it returns a version and no
\* error, which is when the value is the media type of a supported version.
checkAndGetMediaTypeHeaderValue(value) ==
    \E i \in DOMAIN supportedMediaVersions :
        Is(mediaTypeVersion(supportedMediaVersions[i]), value)

\* headerCheck on the value of the header it reads: the status it writes,
\* or 0 when it writes nothing and returns nil.
headerCheck(header) ==
    IF header = "" THEN StatusNotAcceptable
    ELSE IF ~checkAndGetMediaTypeHeaderValue(header)
         THEN StatusUnsupportedMediaType
         ELSE 0

\* The values a request's Accept or Content-Type header takes: absent, the
\* webhook media type, and values near it.
HeaderValues ==
    { "",
      "application/external.dns.webhook+json;version=1",
      "application/external.dns.webhook+json;version=2",
      "application/external.dns.webhook+json",
      "application/external.dns.webhook+json; version=1",
      "Application/External.DNS.Webhook+JSON;version=1",
      "application/json" }

\* No request handled yet.  Of a handled request: the handler, its Accept
\* and Content-Type headers, the status answered and the provider methods
\* called, in order.
WebIdle == [handler |-> "none", accept |-> "", contentType |-> "",
            status |-> 0, invoked |-> <<>>]

Answer(handler, accept, contentType, status, invoked) ==
    [handler |-> handler, accept |-> accept, contentType |-> contentType,
     status |-> status, invoked |-> invoked]

\* A client or provider operation called directly: its name, its argument,
\* the vendor's records when it was called, and what it returned (the
\* records created or listed, the endpoints, the error), or that it
\* panicked instead of returning.
ClIdle == [op |-> "none", endpoint |-> Endpoint("", "", 0, <<>>),
           before |-> <<>>, created |-> <<>>, records |-> <<>>,
           endpoints |-> {}, input |-> <<>>, text |-> <<>>, err |-> NoErr,
           panic |-> FALSE]

(***************************************************************************)
(* The transport on its own                                                *)
(***************************************************************************)
TNext ==
    \/ NewHTTPTransport
    \/ \E body \in {"none", "json"} : DoRequest(body, TRUE)
    \/ DoRequest("none", FALSE)
    \/ \E r \in Responses : HttpExchange(r)

\* The state before NewHTTPTransport is called; client and provider idle.
TInit ==
    /\ mode \in {"session", "apikey"}
    /\ built = "no"
    /\ csrf = ""
    /\ stack = <<>>
    /\ top = "none"
    /\ calls = <<>>
    /\ relogins = 0
    /\ ctorCalls = 0
    /\ ret = NoRet /\ reloginFailed = FALSE
    /\ vendor = <<>> /\ nextId = 1 /\ log = <<>>
    /\ ignoredTargets = 0 /\ srvParseErrors = 0 /\ cnameConflicts = 0
    /\ cl = ClIdle
    /\ ap = [p \in Procs |-> ApIdle]
    /\ req = [p \in Procs |-> ReqIdle] /\ issued = 0 /\ web = WebIdle

SpecTransport == TInit /\ [][TNext]_vars

(***************************************************************************)
(* The client's operations called directly, one call per behaviour         *)
(***************************************************************************)
ClientInit ==
    /\ mode = "apikey" /\ built = "yes" /\ csrf = "" /\ stack = <<>>
    /\ top = "none" /\ calls = <<>> /\ relogins = 0 /\ ctorCalls = 0
    /\ ret = NoRet /\ reloginFailed = FALSE
    /\ vendor \in ClientVendors
    /\ nextId = Len(vendor) + 1
    /\ log = <<>>
    /\ ignoredTargets = 0 /\ srvParseErrors = 0 /\ cnameConflicts = 0
    /\ cl = ClIdle
    /\ ap = [p \in Procs |-> ApIdle]
    /\ req = [p \in Procs |-> ReqIdle] /\ issued = 0 /\ web = WebIdle

CreateEndpointCall(endpoint, failAt) ==
    /\ cl.op = "none"
    /\ LET c == CreateEndpoint(vendor, nextId, endpoint, failAt, <<"create", 0>>)
       IN  /\ vendor' = c.vendor
           /\ nextId' = c.nextId
           /\ log' = log \o c.calls
           /\ ignoredTargets' = ignoredTargets + c.ignored
           /\ srvParseErrors' = srvParseErrors + c.srvErrors
           /\ cl' = [ClIdle EXCEPT !.op = "CreateEndpoint", !.endpoint = endpoint,
                                   !.before = vendor, !.created = c.created,
                                   !.err = c.err]
    /\ UNCHANGED <<cnameConflicts, ap>>
    /\ UNCHANGED tvars
    /\ UNCHANGED gvars

DeleteEndpointCall(endpoint, getFails, F) ==
    /\ cl.op = "none"
    /\ IF ~getFails /\ NilDereference(vendor)
       THEN /\ log' = Append(log, Call("GET", 0, <<>>, TRUE, "delete", 0))
            /\ cl' = [ClIdle EXCEPT !.op = "DeleteEndpoint", !.endpoint = endpoint,
                                    !.before = vendor, !.panic = TRUE]
            /\ UNCHANGED vendor
       ELSE LET d == DeleteEndpoint(vendor, endpoint, getFails, F, <<"delete", 0>>)
            IN  /\ vendor' = d.vendor
                /\ log' = log \o d.calls
                /\ cl' = [ClIdle EXCEPT !.op = "DeleteEndpoint",
                                        !.endpoint = endpoint,
                                        !.before = vendor, !.err = d.err]
    /\ UNCHANGED <<nextId, ignoredTargets, srvParseErrors, cnameConflicts, ap>>
    /\ UNCHANGED tvars
    /\ UNCHANGED gvars

\* GetEndpoints called directly: the GET fails, or the listed records are
\* returned with the SRV ones folded.
GetEndpointsCall(ok) ==
    /\ cl.op = "none"
    /\ log' = Append(log, Call("GET", 0, <<>>, ok, "list", 0))
    /\ cl' = IF ok /\ NilDereference(vendor)
             THEN [ClIdle EXCEPT !.op = "GetEndpoints", !.before = vendor,
                                 !.panic = TRUE]
             ELSE [ClIdle EXCEPT !.op = "GetEndpoints", !.before = vendor,
                            !.records = IF ok THEN GetEndpoints(vendor) ELSE <<>>,
                            !.err = IF ok THEN NoErr ELSE Error("request", 0)]
    /\ UNCHANGED <<vendor, nextId, ignoredTargets, srvParseErrors,
                   cnameConflicts, ap>>
    /\ UNCHANGED tvars
    /\ UNCHANGED gvars

\* Records called directly.
RecordsCall(ok) ==
    /\ cl.op = "none"
    /\ log' = Append(log, Call("GET", 0, <<>>, ok, "list", 0))
    /\ cl' = IF ok /\ NilDereference(vendor)
             THEN [ClIdle EXCEPT !.op = "Records", !.before = vendor,
                                 !.panic = TRUE]
             ELSE [ClIdle EXCEPT !.op = "Records", !.before = vendor,
                            !.endpoints = IF ok THEN Records(GetEndpoints(vendor))
                                          ELSE {},
                            !.err = IF ok THEN NoErr ELSE Error("request", 0)]
    /\ UNCHANGED <<vendor, nextId, ignoredTargets, srvParseErrors,
                   cnameConflicts, ap>>
    /\ UNCHANGED tvars
    /\ UNCHANGED gvars

\* One of the endpoints Records returned is handed to CreateEndpoint, and
\* the vendor accepts every POST.
RecreateCall(endpoint) ==
    /\ cl.op = "Records" /\ cl.err = NoErr
    /\ endpoint \in cl.endpoints
    /\ LET c == CreateEndpoint(vendor, nextId, endpoint, 0, <<"create", 0>>)
       IN  /\ vendor' = c.vendor
           /\ nextId' = c.nextId
           /\ log' = log \o c.calls
           /\ ignoredTargets' = ignoredTargets + c.ignored
           /\ srvParseErrors' = srvParseErrors + c.srvErrors
           /\ cl' = [ClIdle EXCEPT !.op = "Recreate", !.endpoint = endpoint,
                                   !.before = cl.before, !.created = c.created,
                                   !.err = c.err]
    /\ UNCHANGED <<cnameConflicts, ap>>
    /\ UNCHANGED tvars
    /\ UNCHANGED gvars

ClientNext ==
    \/ /\ cl.op = "none"
       /\ \E endpoint \in ClientEndpoints :
            \E failAt \in 0..Len(CreateTargets(endpoint)) :
               CreateEndpointCall(endpoint, failAt)
    \/ /\ cl.op = "none"
       /\ \E endpoint \in ClientEndpoints :
            DeleteEndpointCall(endpoint, TRUE, {})
    \/ /\ cl.op = "none"
       /\ \E endpoint \in ClientEndpoints :
            \E F \in SUBSET MatchingIds(vendor, endpoint) :
               DeleteEndpointCall(endpoint, FALSE, F)
    \/ \E ok \in BOOLEAN : GetEndpointsCall(ok)
    \/ \E ok \in BOOLEAN : RecordsCall(ok)
    \/ \E endpoint \in cl.endpoints : RecreateCall(endpoint)

SpecClient == ClientInit /\ [][ClientNext]_vars

(***************************************************************************)
(* The client on whatever JSON array the vendor returns                    *)
(***************************************************************************)
\* Decoded vendor arrays whose SRV record has each of priority, weight and
\* port present or absent (encoding/json leaves an absent or null field nil).
RawVendors ==
    { <<DNSRecord(1, "foo", recordTypeA, 300, <<"v1">>),
        [DNSRecord(2, key, recordTypeSRV, 300, <<"h1">>)
            EXCEPT !.priority = p, !.weight = w, !.port = q]>> :
      key \in {"foo", "bar"},
      p \in {Nil, Ptr(10)}, w \in {Nil, Ptr(20)}, q \in {Nil, Ptr(8080)} }

VendorDataInit ==
    /\ mode = "apikey" /\ built = "yes" /\ csrf = "" /\ stack = <<>>
    /\ top = "none" /\ calls = <<>> /\ relogins = 0 /\ ctorCalls = 0
    /\ ret = NoRet /\ reloginFailed = FALSE
    /\ vendor \in RawVendors
    /\ nextId = Len(vendor) + 1
    /\ log = <<>>
    /\ ignoredTargets = 0 /\ srvParseErrors = 0 /\ cnameConflicts = 0
    /\ cl = ClIdle
    /\ ap = [p \in Procs |-> ApIdle]
    /\ req = [p \in Procs |-> ReqIdle] /\ issued = 0 /\ web = WebIdle

VendorDataNext ==
    \/ \E ok \in BOOLEAN : GetEndpointsCall(ok)
    \/ \E ok \in BOOLEAN : RecordsCall(ok)
    \/ /\ cl.op = "none"
       /\ \E endpoint \in ClientEndpoints, getFails \in BOOLEAN :
            DeleteEndpointCall(endpoint, getFails, {})

SpecVendorData == VendorDataInit /\ [][VendorDataNext]_vars

(***************************************************************************)
(* FormatURL (utils.go): strings are sequences of characters               *)
(***************************************************************************)
\* strings.Split(path, "%s"): the pieces of path between the occurrences of
\* "%s" found from left to right; cur is the piece being read.
RECURSIVE Split(_, _)
Split(path, cur) ==
    IF path = <<>> THEN <<cur>>
    ELSE IF Len(path) >= 2 /\ path[1] = "%" /\ path[2] = "s"
         THEN <<cur>> \o Split(SubSeq(path, 3, Len(path)), <<>>)
         ELSE Split(Tail(path), Append(cur, path[1]))

\* strings.Join(segments, "")
RECURSIVE Join(_)
Join(segments) ==
    IF segments = <<>> THEN <<>> ELSE Head(segments) \o Join(Tail(segments))

\* The loop of FormatURL from its i-th param on: a non-empty param is
\* appended to the segment of its index, and an index past the last segment
\* is a run-time panic.
RECURSIVE FormatLoop(_, _, _)
FormatLoop(segments, params, i) ==
    IF i > Len(params) THEN [panic |-> FALSE, text |-> Join(segments)]
    ELSE IF params[i] = <<>> THEN FormatLoop(segments, params, i + 1)
    ELSE IF i > Len(segments) THEN [panic |-> TRUE, text |-> <<>>]
    ELSE FormatLoop([segments EXCEPT ![i] = @ \o params[i]], params, i + 1)

\* FormatURL, were it to refuse every param list longer than the segments.
FormatURLStrict(path, params) ==
    IF Len(params) > Len(Split(path, <<>>)) THEN [panic |-> TRUE, text |-> <<>>]
    ELSE FormatLoop(Split(path, <<>>), params, 1)

\* FormatURL(path, params...): [panic, text].
FormatURL(path, params) == FormatLoop(Split(path, <<>>), params, 1)

\* The paths and the params FormatURL is called with.
MaxPath == 5
MaxParams == 3
PathChars == {"%", "s", "/"}
Paths == UNION {[1..n -> PathChars] : n \in 0..MaxPath}
ParamValues == {<<>>, <<"x">>, <<"y", "z">>}
ParamLists == UNION {[1..n -> ParamValues] : n \in 0..MaxParams}

FormatURLCall(path, params) ==
    /\ cl.op = "none"
    /\ LET f == FormatURL(path, params)
       IN  cl' = [ClIdle EXCEPT !.op = "FormatURL", !.input = <<path, params>>,
                               !.text = f.text, !.panic = f.panic]
    /\ UNCHANGED <<vendor, nextId, log, ignoredTargets, srvParseErrors,
                   cnameConflicts, ap>>
    /\ UNCHANGED tvars
    /\ UNCHANGED gvars

FormatURLInit ==
    /\ mode = "apikey" /\ built = "yes" /\ csrf = "" /\ stack = <<>>
    /\ top = "none" /\ calls = <<>> /\ relogins = 0 /\ ctorCalls = 0
    /\ ret = NoRet /\ reloginFailed = FALSE
    /\ vendor = <<>> /\ nextId = 1 /\ log = <<>>
    /\ ignoredTargets = 0 /\ srvParseErrors = 0 /\ cnameConflicts = 0
    /\ cl = ClIdle
    /\ ap = [p \in Procs |-> ApIdle]
    /\ req = [p \in Procs |-> ReqIdle] /\ issued = 0 /\ web = WebIdle

FormatURLNext ==
    /\ cl.op = "none"
    /\ \E path \in Paths, params \in ParamLists : FormatURLCall(path, params)

SpecFormatURL == FormatURLInit /\ [][FormatURLNext]_vars

(***************************************************************************)
(* The webhook's handlers                                                  *)
(***************************************************************************)
\* Webhook.Records: GET /records.  providerOk: provider.Records returns no
\* error.
WebhookRecords(accept, contentType, providerOk) ==
    /\ web' =
         IF headerCheck(accept) # 0
         THEN Answer("Records", accept, contentType, headerCheck(accept), <<>>)
         ELSE Answer("Records", accept, contentType,
                     IF providerOk THEN StatusOK ELSE StatusServerError,
                     <<"Records">>)
    /\ UNCHANGED <<req, issued, tvars, cvars>>

\* Webhook.ApplyChanges: POST /records.  bodyOk: the body decodes into
\* plan.Changes; providerOk: provider.ApplyChanges returns no error.
WebhookApplyChanges(accept, contentType, bodyOk, providerOk) ==
    /\ web' =
         IF headerCheck(contentType) # 0
         THEN Answer("ApplyChanges", accept, contentType,
                     headerCheck(contentType), <<>>)
         ELSE IF ~bodyOk
         THEN Answer("ApplyChanges", accept, contentType, StatusBadRequest, <<>>)
         ELSE Answer("ApplyChanges", accept, contentType,
                     IF providerOk THEN StatusNoContent ELSE StatusServerError,
                     <<"ApplyChanges">>)
    /\ UNCHANGED <<req, issued, tvars, cvars>>

\* Webhook.AdjustEndpoints: POST /adjustendpoints.
WebhookAdjustEndpoints(accept, contentType, bodyOk, providerOk) ==
    /\ web' =
         IF headerCheck(contentType) # 0
         THEN Answer("AdjustEndpoints", accept, contentType,
                     headerCheck(contentType), <<>>)
         ELSE IF headerCheck(accept) # 0
         THEN Answer("AdjustEndpoints", accept, contentType,
                     headerCheck(accept), <<>>)
         ELSE IF ~bodyOk
         THEN Answer("AdjustEndpoints", accept, contentType,
                     StatusBadRequest, <<>>)
         ELSE Answer("AdjustEndpoints", accept, contentType,
                     IF providerOk THEN StatusOK ELSE StatusServerError,
                     <<"AdjustEndpoints">>)
    /\ UNCHANGED <<req, issued, tvars, cvars>>

\* Webhook.Negotiate: GET /.
WebhookNegotiate(accept, contentType) ==
    /\ web' =
         IF headerCheck(accept) # 0
         THEN Answer("Negotiate", accept, contentType, headerCheck(accept), <<>>)
         ELSE Answer("Negotiate", accept, contentType, StatusOK,
                     <<"GetDomainFilter">>)
    /\ UNCHANGED <<req, issued, tvars, cvars>>

WebhookInit ==
    /\ mode = "apikey" /\ built = "yes" /\ csrf = "" /\ stack = <<>>
    /\ top = "none" /\ calls = <<>> /\ relogins = 0 /\ ctorCalls = 0
    /\ ret = NoRet /\ reloginFailed = FALSE
    /\ vendor = <<>> /\ nextId = 1 /\ log = <<>>
    /\ ignoredTargets = 0 /\ srvParseErrors = 0 /\ cnameConflicts = 0
    /\ cl = ClIdle
    /\ ap = [p \in Procs |-> ApIdle]
    /\ req = [p \in Procs |-> ReqIdle] /\ issued = 0 /\ web = WebIdle

\* The server's routes: one request after another, each with any headers.
WebhookNext ==
    \E accept \in HeaderValues, contentType \in HeaderValues :
        \/ \E providerOk \in BOOLEAN :
               WebhookRecords(accept, contentType, providerOk)
        \/ \E bodyOk \in BOOLEAN, providerOk \in BOOLEAN :
               WebhookApplyChanges(accept, contentType, bodyOk, providerOk)
        \/ \E bodyOk \in BOOLEAN, providerOk \in BOOLEAN :
               WebhookAdjustEndpoints(accept, contentType, bodyOk, providerOk)
        \/ WebhookNegotiate(accept, contentType)

SpecWebhook == WebhookInit /\ [][WebhookNext]_vars

(***************************************************************************)
(* The record transformer on its own                                       *)
(***************************************************************************)
TransformerInit ==
    /\ mode = "apikey" /\ built = "yes" /\ csrf = "" /\ stack = <<>>
    /\ top = "none" /\ calls = <<>> /\ relogins = 0 /\ ctorCalls = 0
    /\ ret = NoRet /\ reloginFailed = FALSE
    /\ vendor = <<>> /\ nextId = 1 /\ log = <<>>
    /\ ignoredTargets = 0 /\ srvParseErrors = 0 /\ cnameConflicts = 0
    /\ cl = ClIdle
    /\ ap = [p \in Procs |-> ApIdle]
    /\ req = [p \in Procs |-> ReqIdle] /\ issued = 0 /\ web = WebIdle

\* FormatSRVValue, then ParseSRVTarget of what it wrote into an empty record.
SRVRoundtrip(priority, weight, port, target) ==
    /\ cl.op = "none"
    /\ LET formatted == FormatSRVValue(priority, weight, port, target)
           parsed == ParseSRVTarget(DNSRecord(0, "", "", 0, <<>>), formatted)
       IN  cl' = [ClIdle EXCEPT !.op = "SRVRoundtrip",
                               !.input = <<priority, weight, port, target>>,
                               !.text = formatted,
                               !.created = <<parsed.record>>,
                               !.err = parsed.err]
    /\ UNCHANGED <<vendor, nextId, log, ignoredTargets, srvParseErrors,
                   cnameConflicts, ap>>
    /\ UNCHANGED tvars
    /\ UNCHANGED gvars

TransformerNext ==
    /\ cl.op = "none"
    /\ \E priority, weight, port \in SRVNumbers :
          \E target \in SRVHosts : SRVRoundtrip(priority, weight, port, target)

SpecTransformer == TransformerInit /\ [][TransformerNext]_vars

(***************************************************************************)
(* ApplyChanges                                                            *)
(***************************************************************************)
ApplyInit ==
    /\ mode = "apikey" /\ built = "yes" /\ csrf = "" /\ stack = <<>>
    /\ top = "none" /\ calls = <<>> /\ relogins = 0 /\ ctorCalls = 0
    /\ ret = NoRet /\ reloginFailed = FALSE
    /\ vendor \in ApplyVendors
    /\ nextId = Len(vendor) + 1
    /\ log = <<>>
    /\ ignoredTargets = 0 /\ srvParseErrors = 0 /\ cnameConflicts = 0
    /\ cl = ClIdle
    /\ ap = [p \in Procs |-> ApIdle]
    /\ req = [p \in Procs |-> ReqIdle] /\ issued = 0 /\ web = WebIdle

\* A webhook request calls ApplyChanges.
ApplyChanges(p, ch) ==
    /\ ap[p].pc = "idle"
    /\ ap' = [ap EXCEPT ![p] = [ApIdle EXCEPT !.pc = "baseline", !.changes = ch,
                                             !.before = vendor]]
    /\ UNCHANGED <<vendor, nextId, log, ignoredTargets, srvParseErrors,
                   cnameConflicts, cl>>
    /\ UNCHANGED tvars
    /\ UNCHANGED gvars

\* existingRecords, err := p.Records(ctx)
ApplyBaseline(p, ok) ==
    /\ ap[p].pc = "baseline"
    /\ log' = Append(log, Call("GET", 0, <<>>, ok, "baseline", p))
    /\ ap' = [ap EXCEPT ![p] =
                IF ok
                THEN AfterStep([ap[p] EXCEPT !.baseline = Records(GetEndpoints(vendor))],
                               NoErr, Len(log'))
                ELSE AfterBaselineError(ap[p], Len(log'))]
    /\ UNCHANGED <<vendor, nextId, ignoredTargets, srvParseErrors,
                   cnameConflicts, cl>>
    /\ UNCHANGED tvars
    /\ UNCHANGED gvars

\* One iteration of the delete loop.
ApplyDelete(p, getFails, F) ==
    /\ ap[p].pc = "delete"
    /\ LET endpoint == DeleteList(ap[p].changes)[ap[p].i]
           d == DeleteEndpoint(vendor, endpoint, getFails, F, <<"delete", p>>)
       IN  /\ F \subseteq MatchingIds(vendor, endpoint)
           /\ vendor' = d.vendor
           /\ log' = log \o d.calls
           /\ ap' = [ap EXCEPT ![p] = AfterStep(ap[p], d.err, Len(log'))]
    /\ UNCHANGED <<nextId, ignoredTargets, srvParseErrors, cnameConflicts, cl>>
    /\ UNCHANGED tvars
    /\ UNCHANGED gvars

\* One iteration of the conflict loop inside the create loop.
ApplyConflict(p, getFails, F) ==
    /\ ap[p].pc = "create"
    /\ LET endpoint == CreateList(ap[p].changes)[ap[p].i]
       IN  \E record \in Conflicts(endpoint, ap[p].baseline) \ ap[p].resolved :
             LET d == DeleteEndpoint(ConflictRecords(vendor, ap[p]), record,
                                     getFails, F, <<"conflict", p>>)
             IN  /\ F \subseteq MatchingIds(vendor, record)
                 /\ cnameConflicts' = cnameConflicts + 1
                 /\ vendor' = d.vendor
                 /\ log' = log \o d.calls
                 /\ ap' = [ap EXCEPT ![p] =
                             AfterConflict(ap[p], record, d.err, Len(log'))]
    /\ UNCHANGED <<nextId, ignoredTargets, srvParseErrors, cl>>
    /\ UNCHANGED tvars
    /\ UNCHANGED gvars

\* The CreateEndpoint of one iteration of the create loop, once the
\* conflict loop is through.
ApplyCreate(p, failAt) ==
    /\ ap[p].pc = "create"
    /\ LET endpoint == CreateList(ap[p].changes)[ap[p].i]
           c == CreateEndpoint(vendor, nextId, endpoint, failAt, <<"create", p>>)
       IN  /\ Conflicts(endpoint, ap[p].baseline) \subseteq ap[p].resolved
           /\ failAt \in 0..Len(CreateTargets(endpoint))
           /\ vendor' = c.vendor
           /\ nextId' = c.nextId
           /\ log' = log \o c.calls
           /\ ignoredTargets' = ignoredTargets + c.ignored
           /\ srvParseErrors' = srvParseErrors + c.srvErrors
           /\ ap' = [ap EXCEPT ![p] = AfterStep(ap[p], c.err, Len(log'))]
    /\ UNCHANGED <<cnameConflicts, cl>>
    /\ UNCHANGED tvars
    /\ UNCHANGED gvars

ApplyStep(p) ==
    \/ \E ok \in BOOLEAN : ApplyBaseline(p, ok)
    \/ ApplyDelete(p, TRUE, {})
    \/ \E F \in SUBSET (1..(nextId - 1)) : ApplyDelete(p, FALSE, F)
    \/ ApplyConflict(p, TRUE, {})
    \/ \E F \in SUBSET (1..(nextId - 1)) : ApplyConflict(p, FALSE, F)
    \/ \E failAt \in 0..MaxTargets : ApplyCreate(p, failAt)

ApplyNext ==
    \/ /\ ap[1].pc = "idle"
       /\ \E ch \in Batches : ApplyChanges(1, ch)
    \/ ApplyStep(1)

SpecApply == ApplyInit /\ [][ApplyNext]_vars

(***************************************************************************)
(* Two webhook requests calling ApplyChanges on one provider               *)
(***************************************************************************)
\* The CNAME Endpoints at foo.
CNAMEEndpoints ==
    {x \in ApplyEndpoints : x.type = recordTypeCNAME /\ x.name = "foo"}

\* The batches of the two requests: each creates one CNAME Endpoint at foo,
\* as a new Endpoint (Create) or as the new state of an update (UpdateOld,
\* UpdateNew).
CNAMEBatches ==
    {Changes(<<e>>, 1, 1, 1) : e \in CNAMEEndpoints} \cup
    {Changes(<<old, e>>, 0, 1, 2) : old \in CNAMEEndpoints, e \in CNAMEEndpoints}

\* The HTTP server runs each request in a goroutine of its own, and
\* ApplyChanges takes no lock: the steps of the two calls interleave freely.
PairNext ==
    \E p \in Procs :
        \/ /\ ap[p].pc = "idle"
           /\ \E ch \in CNAMEBatches : ApplyChanges(p, ch)
        \/ ApplyStep(p)

SpecApplyPair == ApplyInit /\ [][PairNext]_vars

(***************************************************************************)
(* ApplyChanges under a context that its caller cancels                    *)
(***************************************************************************)
\* The caller cancels the context of an ApplyChanges in progress.  The
\* context is handed to p.Records only, which does not hand it on, and the
\* client is called without it: no step of ApplyChanges reads it.
Cancel(p) ==
    /\ ap[p].pc \notin {"idle", "done"}
    /\ ~ap[p].cancelled
    /\ ap' = [ap EXCEPT ![p].cancelled = TRUE, ![p].cancelAt = Len(log)]
    /\ UNCHANGED <<vendor, nextId, log, ignoredTargets, srvParseErrors,
                   cnameConflicts, cl>>
    /\ UNCHANGED tvars
    /\ UNCHANGED gvars

CancelNext ==
    \/ ApplyNext
    \/ Cancel(1)

SpecCancel == ApplyInit /\ [][CancelNext]_vars

(***************************************************************************)
(* Two DoRequest calls on one session-mode transport                       *)
(***************************************************************************)
\* The token of the session that has expired, and the tokens the
\* controller issues, in the order it issues them.
ExpiredToken == "s0"
IssuedTokens == <<"s1", "s2">>

\* A response of the controller to an API request or to a login request.
ControllerResponse(status, token) ==
    [kind |-> "http", status |-> status, token |-> token,
     envelope |-> status # StatusOK,
     msg |-> IF status # StatusOK THEN "m1" ELSE ""]

\* The statuses the controller may answer to an API request carrying the
\* token h: it honours the token it issued last, rejects the expired one,
\* and may or may not still honour a token it issued earlier.
Answers(h) ==
    IF issued > 0 /\ h = IssuedTokens[issued] THEN {StatusOK}
    ELSE IF \E n \in 1..issued : h = IssuedTokens[n]
         THEN {StatusOK, StatusUnauthorized}
         ELSE {StatusUnauthorized}

tvarsButCsrf == <<mode, built, stack, top, calls, relogins, ctorCalls, ret,
                  reloginFailed>>

ConcurrentInit ==
    /\ mode = "session" /\ built = "yes" /\ csrf = ExpiredToken /\ stack = <<>>
    /\ top = "none" /\ calls = <<>> /\ relogins = 0 /\ ctorCalls = 1
    /\ ret = NoRet /\ reloginFailed = FALSE
    /\ vendor = <<>> /\ nextId = 1 /\ log = <<>>
    /\ ignoredTargets = 0 /\ srvParseErrors = 0 /\ cnameConflicts = 0
    /\ cl = ClIdle
    /\ ap = [p \in Procs |-> ApIdle]
    /\ req = [p \in Procs |-> ReqIdle] /\ issued = 0 /\ web = WebIdle

\* DoRequest builds its request and SetHeaders copies the stored token
\* into it.
StartRequest(p) ==
    /\ req[p].pc = "idle"
    /\ req' = [req EXCEPT ![p].pc = "do", ![p].hdr = csrf]
    /\ UNCHANGED <<csrf, issued, tvarsButCsrf, cvars, web>>

\* httpClient.Do of the first attempt, and the code after it: the response
\* carries no token; a 401 enters handleUnauthorized, any other status is
\* what DoRequest returns.
FirstAttempt(p, status) ==
    /\ req[p].pc = "do"
    /\ status \in Answers(req[p].hdr)
    /\ req' = [req EXCEPT ![p] =
                 IF status = StatusUnauthorized
                 THEN [@ EXCEPT !.pc = "login", !.first = status,
                                !.relogins = @ + 1]
                 ELSE [@ EXCEPT !.pc = "done", !.first = status,
                                !.ret = Translate(ControllerResponse(status, ""))]]
    /\ UNCHANGED <<csrf, issued, tvarsButCsrf, cvars, web>>

\* The login request of the re-login reaches the controller, which accepts
\* it and issues a new token.
LoginExchange(p) ==
    /\ req[p].pc = "login"
    /\ issued < Len(IssuedTokens)
    /\ issued' = issued + 1
    /\ req' = [req EXCEPT ![p].pc = "store", ![p].tok = IssuedTokens[issued + 1]]
    /\ UNCHANGED <<csrf, tvarsButCsrf, cvars, web>>

\* handleCSRFToken in the DoRequest of Login stores the token of the login
\* response.
StoreToken(p) ==
    /\ req[p].pc = "store"
    /\ csrf' = handleCSRFToken(csrf, ControllerResponse(StatusOK, req[p].tok))
    /\ req' = [req EXCEPT ![p].pc = "storeAgain"]
    /\ UNCHANGED <<issued, tvarsButCsrf, cvars, web>>

\* Login itself stores the token of its response once more.
StoreTokenAgain(p) ==
    /\ req[p].pc = "storeAgain"
    /\ csrf' = LoginTail(Ok(ControllerResponse(StatusOK, req[p].tok)), csrf).csrf
    /\ req' = [req EXCEPT ![p].pc = "headers"]
    /\ UNCHANGED <<issued, tvarsButCsrf, cvars, web>>

\* handleUnauthorized calls SetHeaders on the request again.
RefreshHeaders(p) ==
    /\ req[p].pc = "headers"
    /\ req' = [req EXCEPT ![p].pc = "replay", ![p].hdr = csrf]
    /\ UNCHANGED <<csrf, issued, tvarsButCsrf, cvars, web>>

\* httpClient.Do of the replay; its response is what DoRequest returns.
Replay(p, status) ==
    /\ req[p].pc = "replay"
    /\ status \in Answers(req[p].hdr)
    /\ req' = [req EXCEPT ![p].pc = "done", ![p].replays = @ + 1,
                          ![p].ret = Translate(ControllerResponse(status, ""))]
    /\ UNCHANGED <<csrf, issued, tvarsButCsrf, cvars, web>>

ConcurrentNext ==
    \E p \in Procs :
        \/ StartRequest(p)
        \/ \E status \in {StatusOK, StatusUnauthorized} : FirstAttempt(p, status)
        \/ LoginExchange(p)
        \/ StoreToken(p)
        \/ StoreTokenAgain(p)
        \/ RefreshHeaders(p)
        \/ \E status \in {StatusOK, StatusUnauthorized} : Replay(p, status)

SpecConcurrent == ConcurrentInit /\ [][ConcurrentNext]_vars

(***************************************************************************)
(* Properties of the transport (SpecTransport)                             *)
(***************************************************************************)
\* A session-mode DoRequest whose first response was 401 and whose
\* re-login request the controller answered with 200.
C1_Case ==
    /\ top = "DoRequest" /\ mode = "session" /\ Len(calls) >= 2
    /\ calls[1].resp.kind = "http" /\ calls[1].resp.status = StatusUnauthorized
    /\ calls[2].target = "login"
    /\ calls[2].resp.kind = "http" /\ calls[2].resp.status = StatusOK

\* C1: in session mode, when the first response to a DoRequest is 401 and
\* the re-login succeeds, the original request is replayed exactly once and
\* the replay's result is what the caller gets; the DoRequest makes at most
\* 3 HTTP calls (request, re-login, replay), 4 with the login of the
\* construction.
C1_ReplayOnce ==
    C1_Case =>
        /\ relogins = 1
        /\ Len(calls) <= 3
        /\ ctorCalls = 1 => ctorCalls + Len(calls) <= 4
        /\ Len(calls) = 3 =>
              /\ calls[3].target = "api" /\ calls[3].attempt = "replay"
              /\ stack = <<>>
              /\ ret = Translate(calls[3].resp)
        /\ stack = <<>> => Len(calls) = 3

C1_Witness ==
    /\ C1_Case /\ stack = <<>> /\ Len(calls) = 3 /\ ctorCalls = 1
    /\ ret.kind = "ok"

\* C2: whatever the controller answers, the login request included, one
\* session-mode DoRequest makes at most one re-login attempt and at most
\* one replay, so at most 3 HTTP calls.
C2_OneRelogin ==
    (top = "DoRequest" /\ mode = "session") =>
        /\ relogins <= 1
        /\ Len(calls) <= 3

\* The last HTTP exchange of the operation that has just ended.
LastCall == calls[Len(calls)]

\* C18: whenever the controller answers a login request with a status
\* other than 200, at construction or at a re-login, Login's error is an
\* authentication error carrying that status.
C18_LoginAuthError ==
    (/\ mode = "session" /\ top \in {"ctor", "DoRequest"} /\ stack = <<>>
     /\ calls # <<>> /\ LastCall.target = "login"
     /\ LastCall.resp.kind = "http" /\ LastCall.resp.status # StatusOK) =>
        /\ ret.kind = "auth"
        /\ ret.status = LastCall.resp.status

\* A DoRequest that ended on the response to the request itself (the first
\* attempt or the replay) and that response has a status other than 200.
C19_Case ==
    /\ top = "DoRequest" /\ stack = <<>> /\ calls # <<>>
    /\ LastCall.target = "api"
    /\ LastCall.resp.kind = "http" /\ LastCall.resp.status # StatusOK

\* C19: in both modes such a DoRequest returns no response but an API error
\* with that status and the message of the vendor's error envelope, or a
\* data error when the envelope does not decode.
C19_NonOKIsAPIError ==
    C19_Case =>
        /\ ret.kind # "ok"
        /\ LastCall.resp.envelope =>
              ret = APIError(LastCall.resp.status, LastCall.resp.msg)
        /\ ~LastCall.resp.envelope => ret.kind = "data"

\* The replay after a successful re-login is answered 500 with an envelope.
C19_Witness ==
    /\ C19_Case /\ mode = "session" /\ Len(calls) = 3
    /\ LastCall.attempt = "replay"
    /\ LastCall.resp.status = StatusServerError
    /\ ret = APIError(StatusServerError, "m1")

\* C20: a DoRequest that ended on an exchange that failed at the transport
\* level (first attempt, re-login or replay) returns a network error, and
\* one that ended on a response with a status other than 200 never does.
C20_NetworkVersusAPI ==
    (top = "DoRequest" /\ stack = <<>> /\ calls # <<>>) =>
        /\ LastCall.resp.kind = "net" => ret.kind = "network"
        /\ (LastCall.resp.kind = "http" /\ LastCall.resp.status # StatusOK) =>
              ret.kind \notin {"network", "ok"}
        /\ ret.kind = "network" => LastCall.resp.kind = "net"

\* The re-login after a 401 fails at the transport level.
C20_Witness ==
    /\ top = "DoRequest" /\ stack = <<>> /\ Len(calls) = 2
    /\ calls[1].resp.status = StatusUnauthorized
    /\ LastCall.target = "login" /\ LastCall.resp.kind = "net"
    /\ ret.kind = "network"

(***************************************************************************)
(* Properties of ApplyChanges (SpecApply)                                  *)
(***************************************************************************)
\* C3: within one ApplyChanges call every DELETE precedes every POST.
C3_DeletesBeforeCreates ==
    \A j, k \in 1..Len(log) :
        (log[j].m = "POST" /\ log[k].m = "DELETE") => k < j

\* C3, amended: within one ApplyChanges call every DELETE of the delete
\* loop (for an endpoint of UpdateOld or Delete) precedes every POST; only
\* the DELETEs that resolve a CNAME conflict may follow a POST.
C3_DeleteLoopBeforeCreates ==
    \A j, k \in 1..Len(log) :
        (log[j].m = "POST" /\ log[k].m = "DELETE" /\ log[k].src = "delete")
            => k < j

C3_Witness ==
    /\ ap[1].pc = "done" /\ ap[1].ret = NoErr
    /\ \E j, k \in 1..Len(log) :
          /\ log[k].m = "DELETE" /\ log[k].src = "delete" /\ log[j].m = "POST"
          /\ k < j
    /\ \E j, k \in 1..Len(log) :
          /\ log[k].m = "DELETE" /\ log[k].src = "conflict" /\ log[j].m = "POST"
          /\ j < k

CNAMEsAt(v, name) ==
    {i \in 1..Len(v) : v[i].type = recordTypeCNAME /\ v[i].key = name}

UniqueCNAMEs(v) ==
    \A i, j \in 1..Len(v) :
        (v[i].type = recordTypeCNAME /\ v[j].type = recordTypeCNAME
            /\ v[i].key = v[j].key) => i = j

\* C4: after a successful ApplyChanges against a vendor that held at most
\* one CNAME record per name, the vendor holds at most one CNAME record per
\* name.
C4_UniqueCNAME ==
    (ap[1].pc = "done" /\ ap[1].ret = NoErr /\ UniqueCNAMEs(ap[1].before))
        => UniqueCNAMEs(vendor)

StepsOf(a, kind) == {j \in 1..Len(a.steps) : a.steps[j].kind = kind}

\* C5: ApplyChanges is fail-fast: only its last step can have failed, a
\* failed step ends the call with that error and no HTTP call follows it,
\* and nil is returned only after every delete and create succeeded.
C5_FailFast ==
    LET a == ap[1]
        n == Len(a.steps)
    IN  /\ \A j \in 1..(n - 1) : a.steps[j].err = NoErr
        /\ (n > 0 /\ a.steps[n].err # NoErr) =>
              /\ a.pc = "done"
              /\ a.ret = a.steps[n].err
              /\ Len(log) = a.steps[n].logLen
        /\ (a.pc = "done" /\ a.ret = NoErr) =>
              /\ \A j \in 1..n : a.steps[j].err = NoErr
              /\ Cardinality(StepsOf(a, "delete")) = Len(DeleteList(a.changes))
              /\ Cardinality(StepsOf(a, "create")) = Len(CreateList(a.changes))
        /\ (a.pc = "done" /\ a.ret # NoErr) => (n > 0 /\ a.steps[n].err # NoErr)

C5_Witness ==
    LET a == ap[1]
        n == Len(a.steps)
    IN  /\ a.pc = "done" /\ a.ret # NoErr /\ n = 2
        /\ a.steps[n].kind = "delete"
        /\ Len(DeleteList(a.changes)) = 1 /\ Len(CreateList(a.changes)) = 1
        /\ \E j \in 1..Len(log) : log[j].m = "DELETE" /\ ~log[j].ok

\* C6: when the baseline read fails, ApplyChanges returns an error, sends
\* no DELETE and no POST, and the vendor's records are unchanged.
C6_BaselineFailure ==
    LET a == ap[1]
    IN  (Len(a.steps) >= 1 /\ a.steps[1].kind = "baseline"
            /\ a.steps[1].err # NoErr) =>
            /\ a.pc = "done" /\ a.ret # NoErr
            /\ \A j \in 1..Len(log) : log[j].m \notin {"DELETE", "POST"}
            /\ vendor = a.before

C6_Witness ==
    LET a == ap[1]
    IN  /\ Len(a.steps) = 1 /\ a.steps[1].kind = "baseline"
        /\ a.steps[1].err # NoErr /\ a.pc = "done"
        /\ DeleteList(a.changes) # <<>> /\ CreateList(a.changes) # <<>>
        /\ MatchingIds(vendor, DeleteList(a.changes)[1]) # {}

\* An ApplyChanges whose only change is the creation of a CNAME endpoint at
\* a name where the vendor held exactly one CNAME record.
C7_Case ==
    LET a == ap[1]
    IN  /\ a.pc # "idle"
        /\ a.changes.UpdateOld = <<>> /\ a.changes.UpdateNew = <<>>
        /\ a.changes.Delete = <<>> /\ Len(a.changes.Create) = 1
        /\ a.changes.Create[1].type = recordTypeCNAME
        /\ Cardinality(CNAMEsAt(a.before, a.changes.Create[1].name)) = 1

CallsOf(m) == {j \in 1..Len(log) : log[j].m = m}

\* C7: there the old record is deleted before the new one is created: at
\* most one DELETE and one POST are sent, the POST only after the DELETE
\* of the old record succeeded, and a successful call sent exactly one of
\* each.
C7_ConflictResolution ==
    C7_Case =>
        LET a == ap[1]
            old == a.before[CHOOSE i \in CNAMEsAt(a.before, a.changes.Create[1].name) : TRUE]
        IN  /\ Cardinality(CallsOf("DELETE")) <= 1
            /\ Cardinality(CallsOf("POST")) <= 1
            /\ \A j \in CallsOf("DELETE") : log[j].id = old.id
            /\ \A j \in CallsOf("POST") :
                  \E k \in CallsOf("DELETE") : k < j /\ log[k].ok
            /\ (a.pc = "done" /\ a.ret = NoErr) =>
                  /\ Cardinality(CallsOf("DELETE")) = 1
                  /\ Cardinality(CallsOf("POST")) = 1
                  /\ Cardinality(CNAMEsAt(vendor, old.key)) = 1
                  /\ \A i \in 1..Len(vendor) : vendor[i].id # old.id

C7_Witness ==
    /\ C7_Case /\ ap[1].pc = "done" /\ ap[1].ret = NoErr
    /\ Cardinality(CallsOf("DELETE")) = 1 /\ Cardinality(CallsOf("POST")) = 1

(***************************************************************************)
(* Properties of the client's operations (SpecClient)                      *)
(***************************************************************************)
Posts == SelectSeq(log, LAMBDA c : c.m = "POST")

\* C8: CreateEndpoint for a CNAME endpoint with n > 1 targets that the
\* vendor accepts sends exactly one POST, carrying the first target,
\* returns no error and raises the ignored-targets counter by n - 1.
C8_CNAMEFirstTargetOnly ==
    (/\ cl.op = "CreateEndpoint" /\ cl.endpoint.type = recordTypeCNAME
     /\ Len(cl.endpoint.targets) > 1
     /\ \A j \in 1..Len(log) : log[j].ok) =>
        /\ Len(Posts) = 1 /\ Len(log) = 1
        /\ Posts[1].body[1].value = cl.endpoint.targets[1]
        /\ cl.err = NoErr
        /\ ignoredTargets = Len(cl.endpoint.targets) - 1

\* The body CreateEndpoint is to send for the i-th target of a plain
\* endpoint.
WireRecord(endpoint, i) ==
    [id |-> 0, enabled |-> TRUE, key |-> endpoint.name, port |-> Nil,
     priority |-> Nil, type |-> endpoint.type, ttl |-> endpoint.ttl,
     value |-> endpoint.targets[i], weight |-> Nil]

\* C9: CreateEndpoint for an endpoint of type A, AAAA, TXT, MX or NS with N
\* targets sends its POSTs in the order of the targets, the i-th carrying
\* the i-th target with the endpoint's name, type and TTL and enabled=true,
\* and on success has sent N POSTs and returns the N created records in
\* that order.
C9_PostsInTargetOrder ==
    (cl.op = "CreateEndpoint" /\ cl.endpoint.type \in PlainTypes \ {recordTypeCNAME}) =>
        LET e == cl.endpoint
            N == Len(e.targets)
        IN  /\ Len(log) <= N
            /\ \A i \in 1..Len(log) :
                  /\ log[i].m = "POST"
                  /\ log[i].body = <<WireRecord(e, i)>>
            /\ cl.err = NoErr =>
                  /\ Len(log) = N /\ Len(cl.created) = N
                  /\ \A i \in 1..N :
                        /\ log[i].ok
                        /\ [cl.created[i] EXCEPT !.id = 0] = WireRecord(e, i)
                        /\ \E j \in 1..Len(vendor) : vendor[j] = cl.created[i]

C9_Witness ==
    /\ cl.op = "CreateEndpoint" /\ cl.endpoint.type = recordTypeMX
    /\ cl.err = NoErr /\ Len(log) = 3
    /\ cl.endpoint.targets[1] # cl.endpoint.targets[2]
    /\ cl.endpoint.targets[2] # cl.endpoint.targets[3]

\* C10: CreateEndpoint for an SRV endpoint parses each target on its own:
\* the i-th POST carries the priority, weight, port and host of the i-th
\* target.
C10_SRVEachTargetParsed ==
    (cl.op = "CreateEndpoint" /\ cl.endpoint.type = recordTypeSRV) =>
        \A i \in 1..Len(Posts) :
            LET own == parseSRVTarget(WireRecord(cl.endpoint, i),
                                      cl.endpoint.targets[i])
            IN  /\ own.err = NoErr
                /\ Posts[i].body[1] = own.record

\* A DeleteEndpoint called directly whose re-read of the records succeeded.
DeleteCase ==
    /\ cl.op = "DeleteEndpoint" /\ Len(log) >= 1
    /\ log[1].m = "GET" /\ log[1].ok

\* The records of v at the endpoint's name and type.
SameNameAndType(v, endpoint) ==
    {i \in 1..Len(v) : v[i].key = endpoint.name /\ v[i].type = endpoint.type}

\* C11: DeleteEndpoint, once it has re-read the vendor's records, sends
\* exactly one DELETE for each record with the endpoint's name and type,
\* whatever its value and whatever the endpoint's targets, and none for any
\* other record; it goes on after a failed DELETE; it returns an error
\* exactly when a DELETE failed, the error giving the number of failed
\* DELETEs; the records whose DELETE succeeded are gone and all others stay.
C11_DeleteAllMatching ==
    DeleteCase =>
        LET e == cl.endpoint
            v == cl.before
            hit == SameNameAndType(v, e)
            dels == SelectSeq(log, LAMBDA c : c.m = "DELETE")
            failed == {j \in 1..Len(dels) : ~dels[j].ok}
        IN  /\ \A j \in 2..Len(log) : log[j].m = "DELETE"
            /\ Len(dels) = Cardinality(hit)
            /\ \A i \in hit :
                  Cardinality({j \in 1..Len(dels) : dels[j].id = v[i].id}) = 1
            /\ \A j \in 1..Len(dels) : \E i \in hit : v[i].id = dels[j].id
            /\ (cl.err # NoErr) <=> (failed # {})
            /\ failed # {} => cl.err = Error("delete", Cardinality(failed))
            /\ vendor = SelectSeq(v, LAMBDA r :
                     ~\E j \in 1..Len(dels) : dels[j].id = r.id /\ dels[j].ok)

\* Two records match an endpoint that lists a value neither of them has;
\* the first DELETE fails and the second is sent all the same and succeeds.
C11_Witness ==
    /\ DeleteCase /\ Len(log) = 3
    /\ ~log[2].ok /\ log[3].ok
    /\ cl.err = Error("delete", 1)
    /\ Len(vendor) = Len(cl.before) - 1
    /\ \A i \in SameNameAndType(cl.before, cl.endpoint) :
          \A j \in 1..Len(cl.endpoint.targets) :
             cl.endpoint.targets[j] # cl.before[i].value

\* C12: DeleteEndpoint for an endpoint that no vendor record matches by
\* name and type returns no error, sends no DELETE and leaves the vendor's
\* records as they were.
C12_DeleteNoMatch ==
    (DeleteCase /\ SameNameAndType(cl.before, cl.endpoint) = {}) =>
        /\ cl.err = NoErr
        /\ Len(log) = 1
        /\ vendor = cl.before

\* The vendor holds records, some at the endpoint's name with another type,
\* none at its name and type.
C12_Witness ==
    /\ DeleteCase /\ SameNameAndType(cl.before, cl.endpoint) = {}
    /\ \E i \in 1..Len(cl.before) : cl.before[i].key = cl.endpoint.name
    /\ cl.err = NoErr /\ Len(log) = 1

\* A target that is not "priority weight port host": fewer than four
\* fields, or a priority, weight or port that is not an integer.
Malformed(target) ==
    ~(Len(target) >= 4 /\ IsInt(target[1]) /\ IsInt(target[2]) /\ IsInt(target[3]))

\* C13: CreateEndpoint for an SRV endpoint whose k-th target is the first
\* malformed one, when no POST of an earlier target failed, returns a data
\* error, raises the SRV-parse-error counter by one and has sent the POSTs
\* of the k - 1 targets before it and no other call.
C13_SRVMalformedAnywhere ==
    \A k \in 1..MaxTargets :
        (/\ cl.op = "CreateEndpoint" /\ cl.endpoint.type = recordTypeSRV
         /\ k <= Len(cl.endpoint.targets)
         /\ Malformed(cl.endpoint.targets[k])
         /\ \A i \in 1..(k - 1) : ~Malformed(cl.endpoint.targets[i])
         /\ \A j \in 1..Len(log) : log[j].ok) =>
            /\ cl.err = Error("data", 0)
            /\ srvParseErrors = 1
            /\ Len(log) = k - 1

\* C15: GetEndpoints returns the vendor's records in their order, every
\* SRV record with the value "priority weight port host" and with its
\* priority, weight and port null, every other record unchanged; an empty
\* collection gives zero records and no error.
C15_GetEndpointsFoldsSRV ==
    (cl.op = "GetEndpoints" /\ log[1].ok) =>
        /\ cl.err = NoErr
        /\ Len(cl.records) = Len(cl.before)
        /\ \A i \in 1..Len(cl.before) :
              LET r == cl.before[i]
                  g == cl.records[i]
              IN  IF r.type = recordTypeSRV
                  THEN /\ g.value = <<StrOf(r.priority[1]), StrOf(r.weight[1]),
                                      StrOf(r.port[1])>> \o r.value
                       /\ g.priority = Nil /\ g.weight = Nil /\ g.port = Nil
                       /\ [g EXCEPT !.value = r.value] =
                             [r EXCEPT !.priority = Nil, !.weight = Nil, !.port = Nil]
                  ELSE g = r

\* A CNAME record and the SRV record 10 20 8080 h1 are listed.
C15_Witness ==
    /\ cl.op = "GetEndpoints" /\ cl.err = NoErr /\ Len(cl.records) = 3
    /\ cl.records[1] = cl.before[1] /\ cl.records[1].type = recordTypeCNAME
    /\ cl.before[2].priority = Ptr(10) /\ cl.before[2].value = <<"h1">>
    /\ cl.records[2].value = <<"10", "20", "8080", "h1">>
    /\ cl.records[2].priority = Nil

\* The (key, recordType) pairs of the records of v of supported type.
SupportedPairs(v) ==
    {<<v[i].key, v[i].type>> : i \in {j \in 1..Len(v) : SupportedRecordType(v[j].type)}}

\* How often x occurs in the sequence q.
Count(q, x) == Cardinality({i \in 1..Len(q) : q[i] = x})

\* The values of the records of v at the pair pr, in listing order.
ValuesAt(v, pr) ==
    LET At(r) == r.key = pr[1] /\ r.type = pr[2]
        m == SelectSeq(v, At)
    IN  [i \in 1..Len(m) |-> m[i].value]

\* C16: Records returns exactly one Endpoint per distinct (key,
\* recordType) pair among the vendor records of supported type, its targets
\* the multiset of the values of the records of that pair; records of
\* unsupported type appear nowhere; records of different pairs are never
\* in one Endpoint.
C16_RecordsGroupsByPair ==
    (cl.op = "Records" /\ log[1].ok) =>
        LET listed == GetEndpoints(cl.before)
            pairs == SupportedPairs(listed)
        IN  /\ cl.err = NoErr
            /\ Cardinality(cl.endpoints) = Cardinality(pairs)
            /\ \A e \in cl.endpoints : <<e.name, e.type>> \in pairs
            /\ \A pr \in pairs :
                  \E e \in cl.endpoints :
                     /\ e.name = pr[1] /\ e.type = pr[2]
                     /\ Len(e.targets) = Len(ValuesAt(listed, pr))
                     /\ \A x \in {e.targets[i] : i \in 1..Len(e.targets)} :
                           Count(e.targets, x) = Count(ValuesAt(listed, pr), x)

\* The POSTed record, or the vendor record, as the four things a record
\* says: value, priority, weight, port.
Said(r) == <<r.value, r.priority, r.weight, r.port>>

\* C17: the records CreateEndpoint POSTs for an Endpoint that Records
\* grouped (a CNAME group of several records set aside) say the same, as a
\* multiset, as the vendor records of the Endpoint's name and type.
C17_GroupingIdempotence ==
    (/\ cl.op = "Recreate"
     /\ ~(cl.endpoint.type = recordTypeCNAME /\ Len(cl.endpoint.targets) > 1)) =>
        LET At(r) == r.key = cl.endpoint.name /\ r.type = cl.endpoint.type
            m == SelectSeq(cl.before, At)
            old == [i \in 1..Len(m) |-> Said(m[i])]
            new == [i \in 1..Len(Posts) |-> Said(Posts[i].body[1])]
        IN  /\ cl.err = NoErr
            /\ Len(new) = Len(old)
            /\ \A x \in {old[i] : i \in 1..Len(old)} : Count(new, x) = Count(old, x)

(***************************************************************************)
(* Properties of the record transformer (SpecTransformer)                  *)
(***************************************************************************)
\* C14: for all priorities, weights and ports in [0, 65535] and every host
\* without white space, ParseSRVTarget of FormatSRVValue(p, w, port, host)
\* succeeds and sets priority = p, weight = w, port = port, value = host.
C14_SRVRoundTrip ==
    cl.op = "SRVRoundtrip" =>
        /\ cl.err = NoErr
        /\ cl.created[1].priority = Ptr(cl.input[1])
        /\ cl.created[1].weight = Ptr(cl.input[2])
        /\ cl.created[1].port = Ptr(cl.input[3])
        /\ cl.created[1].value = cl.input[4]

\* C14, amended: the round trip holds for every host of at least one
\* character without white space; the empty host is written as a
\* three-field string, which ParseSRVTarget refuses as it refuses every
\* target with a missing field.
C14_SRVRoundTripNonEmptyHost ==
    (cl.op = "SRVRoundtrip" /\ cl.input[4] # <<>>) =>
        /\ cl.err = NoErr
        /\ cl.created[1].priority = Ptr(cl.input[1])
        /\ cl.created[1].weight = Ptr(cl.input[2])
        /\ cl.created[1].port = Ptr(cl.input[3])
        /\ cl.created[1].value = cl.input[4]

\* A host that starts with a digit, after the largest and the smallest
\* number.
C14_Witness ==
    /\ cl.op = "SRVRoundtrip"
    /\ cl.input = <<MaxUint16, 0, 8080, <<"7", "h">>>>
    /\ cl.err = NoErr
    /\ cl.created[1].value = <<"7", "h">>

\* The X-Csrf-Token value of the last of the calls cs whose response carried
\* a non-empty one, c when none did.
RECURSIVE LastToken(_, _)
LastToken(cs, c) ==
    IF cs = <<>> THEN c
    ELSE IF cs[Len(cs)].resp.token # "" THEN cs[Len(cs)].resp.token
         ELSE LastToken(SubSeq(cs, 1, Len(cs) - 1), c)

\* A DoRequest has ended on a failed re-login: its last exchange was a
\* login request.
C21_Case ==
    /\ top = "DoRequest" /\ mode = "session" /\ stack = <<>>
    /\ calls # <<>> /\ LastCall.target = "login"

\* C21: when the re-login triggered by a 401 fails, the DoRequest returns
\* an error and its request is never replayed, and the transport stays
\* usable: a DoRequest started after such a failure, whose 401 is followed
\* by an accepted login and a replay answered 200, returns that response.
C21_ReloginFailure ==
    /\ C21_Case =>
        /\ ret.kind \notin {"ok", "none"}
        /\ \A i \in DOMAIN calls :
               ~(calls[i].target = "api" /\ calls[i].attempt = "replay")
        /\ built = "yes"
        /\ reloginFailed
    /\ (/\ reloginFailed /\ C1_Case /\ stack = <<>> /\ Len(calls) = 3
        /\ LastCall.resp.kind = "http" /\ LastCall.resp.status = StatusOK) =>
           ret = Ok(LastCall.resp)

\* After a DoRequest that ended on a failed re-login, a later DoRequest got
\* 401, logged in and had its replay answered 200.
C21_Witness ==
    /\ reloginFailed /\ C1_Case /\ stack = <<>> /\ Len(calls) = 3
    /\ LastCall.resp.kind = "http" /\ LastCall.resp.status = StatusOK
    /\ ret.kind = "ok" /\ built = "yes"

\* C22: constructing the transport in session mode performs a login, and
\* when that login fails the construction returns the error and no
\* transport, so that no DoRequest ever runs; with an API key the
\* construction makes no HTTP call and yields a transport.
C22_Construction ==
    /\ (top = "ctor" /\ stack = <<>>) =>
          IF mode = "apikey"
          THEN calls = <<>> /\ ctorCalls = 0 /\ built = "yes"
          ELSE /\ calls # <<>> /\ ctorCalls = Len(calls)
               /\ calls[1].target = "login"
               /\ ret.kind # "none"
               /\ (ret.kind = "ok" => built = "yes")
               /\ (ret.kind # "ok" => built = "failed")
    /\ top = "DoRequest" => built = "yes"

\* The login of the construction was refused: an error and no transport.
C22_Witness ==
    /\ mode = "session" /\ top = "ctor" /\ stack = <<>>
    /\ ctorCalls = 1 /\ calls[1].resp.status = StatusServerError
    /\ ret.kind \notin {"ok", "none"} /\ built = "failed"

\* C23: in API-key mode a DoRequest whose request was built makes exactly
\* one HTTP call, which carries X-Api-Key and no X-Csrf-Token; there is no
\* login, no replay, and the stored CSRF token stays what it was (empty)
\* whatever the response carries.
C23_APIKeyMode ==
    mode = "apikey" =>
        /\ csrf = "" /\ relogins = 0 /\ Len(calls) <= 1
        /\ \A i \in DOMAIN calls :
               /\ calls[i].target = "api" /\ calls[i].attempt = "send"
               /\ calls[i].hdr = [apikey |-> TRUE, csrf |-> <<>>]
        /\ (top = "DoRequest" /\ stack = <<>> /\ ret.kind # "plain") =>
               Len(calls) = 1

\* In API-key mode a request was answered 401 with an X-Csrf-Token header.
C23_Witness ==
    /\ mode = "apikey" /\ top = "DoRequest" /\ stack = <<>> /\ Len(calls) = 1
    /\ calls[1].resp.kind = "http" /\ calls[1].resp.status = StatusUnauthorized
    /\ calls[1].resp.token = "t2" /\ csrf = ""

\* C24: in session mode the stored CSRF token is the X-Csrf-Token value of
\* the most recent response that carried a non-empty one, and every request
\* carries the token stored when it is sent (the calls of the operation in
\* progress, starting from the token its first request carried).
C24_StoredToken ==
    (mode = "session" /\ top = "DoRequest" /\ calls # <<>>) =>
        LET c0 == calls[1].hdr.csrf[1]
        IN  /\ \A i \in DOMAIN calls :
                   calls[i].hdr.csrf = <<LastToken(SubSeq(calls, 1, i - 1), c0)>>
            /\ stack = <<>> => csrf = LastToken(calls, c0)

\* C25: the request replayed after a successful re-login has the body of
\* the first attempt (the JSON of a POST, of a login request), as it has
\* its method and URL.
C25_ReplaySameRequest ==
    \A i \in DOMAIN calls :
        calls[i].attempt = "replay" =>
            calls[i].body = (IF calls[i].target = "api" THEN calls[1].body
                             ELSE "json")

\* C28: every error DoRequest and Login return is an authentication, a
\* network, an API or a data error.
C28_ErrorKinds ==
    ret.kind \in {"none", "ok", "auth", "network", "api", "data"}

\* C26: when the k-th POST of a CreateEndpoint fails, CreateEndpoint
\* returns that error and no records, the failed POST is its last call (no
\* further POST, no DELETE), and the vendor holds what it held before
\* followed by the k-1 records the earlier POSTs created.
C26_NoRollback ==
    (/\ cl.op = "CreateEndpoint"
     /\ \E k \in DOMAIN log : log[k].m = "POST" /\ ~log[k].ok) =>
        LET k == Len(log)
            n == Len(cl.before)
        IN  /\ ~log[k].ok
            /\ \A i \in 1..(k - 1) : log[i].m = "POST" /\ log[i].ok
            /\ log[k].m = "POST"
            /\ cl.err = Error("request", 0) /\ cl.created = <<>>
            /\ Len(vendor) = n + k - 1
            /\ SubSeq(vendor, 1, n) = cl.before
            /\ \A i \in 1..(k - 1) :
                  <<[vendor[n + i] EXCEPT !.id = 0]>> = log[i].body

\* The third POST of a three-target endpoint failed on a vendor that held
\* records already.
C26_Witness ==
    /\ cl.op = "CreateEndpoint" /\ Len(cl.endpoint.targets) = 3
    /\ Len(log) = 3 /\ ~log[3].ok /\ log[1].ok /\ log[2].ok
    /\ cl.before # <<>> /\ Len(vendor) = Len(cl.before) + 2
    /\ cl.err # NoErr

\* C27: no operation of the client panics: whatever array the vendor
\* returns, GetEndpoints, Records and DeleteEndpoint end by returning
\* records or an error.
C27_NoPanic == ~cl.panic

\* C29: once the context of an ApplyChanges in progress is cancelled, no
\* record is created or deleted on the vendor any more (no POST or DELETE
\* made after the cancellation succeeds), and the call ends with an error.
C29_Cancellation ==
    ap[1].cancelled =>
        /\ \A i \in DOMAIN log :
              (i > ap[1].cancelAt /\ log[i].m \in {"POST", "DELETE"}) => ~log[i].ok
        /\ ap[1].pc = "done" => ap[1].ret # NoErr

\* C30: when two session-mode DoRequest calls on one transport both get 401
\* and the controller accepts every login and honours the token it issued
\* last, each call has made one re-login and one replay when it ends, and
\* neither returns an error.
C30_ConcurrentRelogin ==
    \A p \in Procs :
        (/\ \A q \in Procs : req[q].first = StatusUnauthorized
         /\ req[p].pc = "done") =>
            /\ req[p].relogins = 1 /\ req[p].replays = 1
            /\ req[p].ret.kind = "ok"

\* C35: in session mode a first response with a status other than 200 and
\* 401 causes no login and no replay: the DoRequest has made exactly one
\* HTTP call and has returned an error.
C35_Only401Recovers ==
    (/\ top = "DoRequest" /\ mode = "session" /\ calls # <<>>
     /\ calls[1].resp.kind = "http"
     /\ calls[1].resp.status \notin {StatusOK, StatusUnauthorized}) =>
        /\ Len(calls) = 1 /\ stack = <<>> /\ relogins = 0
        /\ ret.kind \notin {"ok", "none"}

\* A session-mode request was answered 500.
C35_Witness ==
    /\ top = "DoRequest" /\ mode = "session" /\ Len(calls) = 1 /\ stack = <<>>
    /\ calls[1].resp.kind = "http" /\ calls[1].resp.status = StatusServerError
    /\ ret.kind = "api"

(***************************************************************************)
(* Further properties of ApplyChanges (SpecApply)                          *)
(***************************************************************************)
\* The record with the given id: one the vendor held when ApplyChanges was
\* called, or the one a successful POST of the call created.
RecordOf(id) ==
    LET n == Len(ap[1].before)
        made == SelectSeq(log, LAMBDA c : c.m = "POST" /\ c.ok)
    IN  IF id <= n THEN ap[1].before[id]
        ELSE [made[id - n].body[1] EXCEPT !.id = id]

\* C32: after a successful ApplyChanges, for every Endpoint of UpdateNew of
\* type A, AAAA, TXT, MX or NS whose (name, type) occurs once in Create and
\* UpdateNew and occurs in UpdateOld, the vendor holds at that (name, type)
\* one record per target of the Endpoint and no other: as many records as
\* targets, each value as often as it occurs among the targets.
C32_UpdateReplaces ==
    LET a == ap[1]
        ch == a.changes
        cs == CreateList(ch)
    IN  (a.pc = "done" /\ a.ret = NoErr) =>
          \A k \in DOMAIN ch.UpdateNew :
            LET e == ch.UpdateNew[k]
                vals == ValuesAt(vendor, <<e.name, e.type>>)
            IN  (/\ e.type \in PlainTypes \ {recordTypeCNAME}
                 /\ Cardinality({j \in DOMAIN cs : cs[j].name = e.name
                                                   /\ cs[j].type = e.type}) = 1
                 /\ \E j \in DOMAIN ch.UpdateOld :
                        ch.UpdateOld[j].name = e.name /\ ch.UpdateOld[j].type = e.type)
                => /\ Len(vals) = Len(e.targets)
                   /\ \A i \in DOMAIN vals : Count(vals, vals[i]) = Count(e.targets, vals[i])
                   /\ \A i \in DOMAIN e.targets :
                          Count(vals, e.targets[i]) = Count(e.targets, e.targets[i])

\* bar/A is updated from the one record v2 to the target v1.
C32_Witness ==
    LET a == ap[1]
    IN  /\ a.pc = "done" /\ a.ret = NoErr
        /\ a.changes.UpdateOld = <<Endpoint("bar", recordTypeA, 300, <<<<"v1">>>>)>>
        /\ a.changes.UpdateNew = <<Endpoint("bar", recordTypeA, 300, <<<<"v1">>>>)>>
        /\ a.changes.Create = <<>>
        /\ ValuesAt(a.before, <<"bar", recordTypeA>>) = <<<<"v2">>>>
        /\ ValuesAt(vendor, <<"bar", recordTypeA>>) = <<<<"v1">>>>

\* A record ApplyChanges may delete: one at the (key, recordType) of an
\* Endpoint of UpdateOld or Delete, or a CNAME record at the name of a CNAME
\* Endpoint of Create or UpdateNew.
C33_MayDelete(r) ==
    LET ch == ap[1].changes
        ds == DeleteList(ch)
        cs == CreateList(ch)
    IN  \/ \E j \in DOMAIN ds : ds[j].name = r.key /\ ds[j].type = r.type
        \/ /\ r.type = recordTypeCNAME
           /\ \E j \in DOMAIN cs : cs[j].type = recordTypeCNAME /\ cs[j].name = r.key

\* C33: every DELETE of an ApplyChanges is for such a record, and every
\* other record the vendor held when the call began is still there,
\* unchanged.
C33_DeleteFrame ==
    /\ \A j \in DOMAIN log : log[j].m = "DELETE" => C33_MayDelete(RecordOf(log[j].id))
    /\ \A i \in DOMAIN ap[1].before :
          (ap[1].pc # "idle" /\ ~C33_MayDelete(ap[1].before[i])) =>
              \E k \in DOMAIN vendor : vendor[k] = ap[1].before[i]

\* A successful call that deleted by an Endpoint and by a CNAME conflict and
\* left a record of the vendor alone.
C33_Witness ==
    /\ ap[1].pc = "done" /\ ap[1].ret = NoErr
    /\ \E j \in DOMAIN log : log[j].m = "DELETE" /\ log[j].src = "delete"
    /\ \E j \in DOMAIN log : log[j].m = "DELETE" /\ log[j].src = "conflict"
    /\ \E i \in DOMAIN ap[1].before :
          /\ ~C33_MayDelete(ap[1].before[i])
          /\ \E k \in DOMAIN vendor : vendor[k] = ap[1].before[i]

\* C34: within one ApplyChanges each record id receives at most one DELETE;
\* in particular the conflict loop, which goes by the baseline read before
\* the delete loop, sends no DELETE for a record the delete loop removed.
C34_OneDeletePerRecord ==
    \A j, k \in DOMAIN log :
        (log[j].m = "DELETE" /\ log[k].m = "DELETE" /\ log[j].id = log[k].id)
            => j = k

\* A CNAME was updated: the delete loop removed the old record, the
\* conflict loop found its endpoint in the baseline, read the vendor and
\* sent no DELETE, and the new record was created.
C34_Witness ==
    LET a == ap[1]
    IN  /\ a.pc = "done" /\ a.ret = NoErr
        /\ Len(a.changes.UpdateOld) = 1 /\ Len(a.changes.UpdateNew) = 1
        /\ a.changes.UpdateOld[1].type = recordTypeCNAME
        /\ a.changes.UpdateNew[1].type = recordTypeCNAME
        /\ a.changes.UpdateOld[1].name = a.changes.UpdateNew[1].name
        /\ Cardinality(CNAMEsAt(a.before, a.changes.UpdateOld[1].name)) = 1
        /\ StepsOf(a, "conflict") # {}
        /\ Cardinality(CallsOf("DELETE")) = 1
        /\ \E j \in DOMAIN log : log[j].m = "GET" /\ log[j].src = "conflict"

\* C31: when two ApplyChanges calls that each create a CNAME Endpoint at
\* the same name have both ended, on a vendor that held at most one CNAME
\* record per name, the vendor does not hold two CNAME records at that name.
C31_ConcurrentUniqueCNAME ==
    (/\ \A p \in Procs : ap[p].pc = "done"
     /\ UniqueCNAMEs(ap[1].before) /\ UniqueCNAMEs(ap[2].before)) =>
        Cardinality(CNAMEsAt(vendor, "foo")) <= 1

(***************************************************************************)
(* Properties of FormatURL (SpecFormatURL)                                 *)
(***************************************************************************)
\* The number of %s placeholders of path, read from left to right.
RECURSIVE Placeholders(_)
Placeholders(path) ==
    IF Len(path) < 2 THEN 0
    ELSE IF path[1] = "%" /\ path[2] = "s"
         THEN 1 + Placeholders(SubSeq(path, 3, Len(path)))
         ELSE Placeholders(Tail(path))

\* path with each placeholder replaced by the next of params (by nothing
\* when the params are used up) and, at its end, the next param appended if
\* there is one.
RECURSIVE Substituted(_, _)
Substituted(path, params) ==
    LET next == IF params = <<>> THEN <<>> ELSE Head(params)
        rest == IF params = <<>> THEN <<>> ELSE Tail(params)
    IN  IF path = <<>> THEN next
        ELSE IF Len(path) >= 2 /\ path[1] = "%" /\ path[2] = "s"
             THEN next \o Substituted(SubSeq(path, 3, Len(path)), rest)
             ELSE <<path[1]>> \o Substituted(Tail(path), params)

CheckedHeaders(w) ==
    CASE w.handler = "Records" -> <<w.accept>>
      [] w.handler = "ApplyChanges" -> <<w.contentType>>
      [] w.handler = "AdjustEndpoints" -> <<w.contentType, w.accept>>
      [] w.handler = "Negotiate" -> <<w.accept>>
      [] OTHER -> <<>>

\* The checked headers that are missing or are not the webhook media type.
Rejected(w) ==
    {i \in DOMAIN CheckedHeaders(w) :
        CheckedHeaders(w)[i] # "application/external.dns.webhook+json;version=1"}

FirstRejected(w) ==
    CheckedHeaders(w)[CHOOSE i \in Rejected(w) : \A j \in Rejected(w) : i <= j]

\* C36: a handler checks its media-type headers before it calls the
\* provider.  When a header it checks is missing or is not exactly
\* application/external.dns.webhook+json;version=1, the request is answered
\* with 406 if the first such header is missing and with 415 otherwise, and
\* no method of the provider is invoked.
C36_HeaderCheckFirst ==
    Rejected(web) # {} =>
        /\ web.invoked = <<>>
        /\ web.status = IF FirstRejected(web) = "" THEN 406 ELSE 415

\* AdjustEndpoints with a good Content-Type and an Accept of another version
\* is answered 415 without a provider call.
C36_Witness ==
    /\ web.handler = "AdjustEndpoints"
    /\ web.contentType = "application/external.dns.webhook+json;version=1"
    /\ web.accept = "application/external.dns.webhook+json;version=2"
    /\ web.status = 415 /\ web.invoked = <<>>

====
